---- MODULE Spec2Model ----
(***************************************************************************)
(* A model of the GreyScript tokenizer (src/src/lexer.ts) and of the       *)
(* recursive-descent parser (src/src/parser.ts, class Parser, lines        *)
(* 39-1333).  Source text is a sequence of one-character strings; the      *)
(* tokenizer and the parser are translated method by method into           *)
(* operators that thread the object's state (a record) and return it       *)
(* together with the method's result.                                      *)
(***************************************************************************)
EXTENDS Integers, Sequences, FiniteSets, TLC

VARIABLES
  client,     \* which object the caller drives: "lexer", "parser" or "cursor"
  lexer,      \* a stand-alone Lexer
  tokens,     \* the tokens its next() has returned so far
  lexStatus,  \* how its last next() call ended
  parser,     \* a Parser (with the Lexer it owns)
  pc,         \* the position of parseChunk
  block,      \* the statement list of parseChunk's parseBlock
  chunk       \* the value parseChunk returned

vars == <<client, lexer, tokens, lexStatus, parser, pc, block, chunk>>

\* a method call: Call(name, arguments), defined after the methods
RECURSIVE Call(_, _)

(***************************************************************************)
(* Bounds of the model.                                                    *)
(***************************************************************************)
\* depth of nested Lexer.next() calls after which the engine's call stack is
\* exhausted (RangeError: Maximum call stack size exceeded)
MaxStack == 3
\* iterations of a loop whose condition can no longer change that are
\* followed before the loop is reported as spinning forever
MaxSpin == 2
\* calls of next() made on the stand-alone tokenizer, or on the parser alone
MaxCalls == 10
\* largest offset passed to prefetch(offset)
MaxOffset == 2
\* largest options.tabWidth
MaxTabWidth == 2
\* number of lines of a generated source
MaxLines == 2
\* number of binary operators of a generated expression
MaxOperators == 2

(***************************************************************************)
(* Generic helpers.                                                        *)
(***************************************************************************)
Min(a, b) == IF a < b THEN a ELSE b

Max(a, b) == IF a > b THEN a ELSE b

\* Array.prototype.join('') on a sequence of strings, halving the sequence
RECURSIVE Join(_)
Join(s) ==
  IF s = <<>> THEN ""
  ELSE IF Len(s) = 1 THEN s[1]
  ELSE Join(SubSeq(s, 1, Len(s) \div 2))
         \o Join(SubSeq(s, Len(s) \div 2 + 1, Len(s)))

RECURSIVE Flatten(_)
Flatten(ss) == IF ss = <<>> THEN <<>> ELSE Head(ss) \o Flatten(Tail(ss))

\* String.prototype.slice(a, b) on the content, clamped to its length
Slice(content, a, b) ==
  Join(SubSeq(content, a + 1, Min(b, Len(content))))

(***************************************************************************)
(* Character classes: src/src/lexer/validator.ts                           *)
(***************************************************************************)
LowerLetters == {"a","b","c","d","e","f","g","h","i","j","k","l","m",
                 "n","o","p","q","r","s","t","u","v","w","x","y","z"}
UpperLetters == {"A","B","C","D","E","F","G","H","I","J","K","L","M",
                 "N","O","P","Q","R","S","T","U","V","W","X","Y","Z"}
Digits == {"0","1","2","3","4","5","6","7","8","9"}

\* String.prototype.charCodeAt out of range
NaN == "NaN"

getKeywords(index) ==
  CASE index = 2 -> {"if", "in", "or"}
    [] index = 3 -> {"and", "end", "for", "not", "new"}
    [] index = 4 -> {"else", "then"}
    [] index = 5 -> {"break", "while"}
    [] index = 6 -> {"return"}
    [] index = 8 -> {"function", "continue"}
    [] index = 11 -> {"import_code"}
    [] OTHER -> {}

isKeyword(value) == value \in getKeywords(Len(value))

isEndOfLine(code) == code \in {"\n", "\r"}

isComment(code, nextCode) == code = "/" /\ nextCode = "/"

isIdentifierStart(code) ==
  code \in UpperLetters \cup LowerLetters \cup {"_"}

isIdentifierPart(code) ==
  code \in UpperLetters \cup LowerLetters \cup {"_"} \cup Digits

isDecDigit(code) == code \in Digits

(***************************************************************************)
(* Tokens: src/src/lexer/token.ts                                          *)
(***************************************************************************)
\* Position (utils/position): line and 1-based column
Position(line, character) == [line |-> line, character |-> character]

\* lastLine = 0 stands for an undefined lastLine
createToken(type, value, line, lineStart, range, offset, lastLine, lastLineStart) ==
  [type |-> type, value |-> value, line |-> line, lineStart |-> lineStart,
   range |-> range,
   lineRange |-> <<range[1] - offset + 1, range[2] - offset + 1>>,
   lastLine |-> lastLine, lastLineStart |-> lastLineStart]

\* the absent token (null)
NoToken == createToken("None", "", 0, 0, <<0, 0>>, 0, 0, 0)

getStart(token) == Position(token.line, token.lineRange[1])

getEnd(token) ==
  Position(IF token.lastLine # 0 THEN token.lastLine ELSE token.line,
           token.lineRange[2])

(***************************************************************************)
(* The tokenizer: src/src/lexer.ts                                         *)
(***************************************************************************)
NewLexer(content, unsafe, tabWidth) ==
  [content |-> content, length |-> Len(content), index |-> 0,
   tokenStart |-> -1, tabWidth |-> tabWidth, line |-> 1, lineStart |-> 0,
   offset |-> 0, unsafe |-> unsafe, errors |-> <<>>]

\* the result of a tokenizer method: the tokenizer afterwards, the token
\* returned and how the call ended: "ok", "throw" (an error thrown in strict
\* mode), "RangeError" (call stack exhausted) or "hang" (a loop that never
\* exits)
LexResult(lx, tok, st) == [lx |-> lx, tok |-> tok, st |-> st]

isNotEOF(lx) == lx.index < lx.length

nextIndex(lx, value) == [lx EXCEPT !.index = lx.index + value]

codeAt(lx, offset) ==
  IF lx.index + offset + 1 \in 1..lx.length
  THEN lx.content[lx.index + offset + 1]
  ELSE NaN

nextLine(lx) == [lx EXCEPT !.line = lx.line + 1]

isStringEscaped(lx) == codeAt(lx, 1) = "\""

createEOL(lx) ==
  createToken("EOL", ";", lx.line, lx.lineStart,
              <<lx.tokenStart, lx.index>>, lx.offset, 0, 0)

skipWhiteSpace(lx) ==
  IF ~isNotEOF(lx) THEN lx
  ELSE IF codeAt(lx, 0) = " " THEN Call("skipWhiteSpace", <<nextIndex(lx, 1)>>)
  ELSE IF codeAt(lx, 0) = "\t"
       THEN Call("skipWhiteSpace", <<nextIndex(
              [lx EXCEPT !.offset = lx.offset - (lx.tabWidth - 1)], 1)>>)
  ELSE lx

\* the index at which a loop that advances by one character stops: the first
\* index from the current one that is in stops
advanceTo(lx, stops) ==
  IF stops = {} THEN lx
  ELSE [lx EXCEPT !.index = CHOOSE i \in stops : \A j \in stops : i <= j]

\* while (me.isNotEOF()) { if (validator.isEndOfLine(me.codeAt())) break;
\* me.nextIndex() }
scanComment(lx) ==
  advanceTo(lx, {i \in lx.index..Max(lx.index, lx.length) :
                   ~(i < lx.length /\ ~isEndOfLine(lx.content[i + 1]))})

skipComments(lx) ==
  IF isComment(codeAt(lx, 0), codeAt(lx, 1))
  THEN Call("skipComments", <<Call("scanComment", <<[lx EXCEPT !.tokenStart = lx.index]>>)>>)
  ELSE lx

\* while (validator.isIdentifierPart(me.codeAt())) me.nextIndex()
scanIdentifierPart(lx) ==
  advanceTo(lx, {i \in lx.index..lx.length :
                   ~isIdentifierPart(codeAt(nextIndex(lx, i - lx.index), 0))})

\* while (validator.isDecDigit(me.codeAt())) me.nextIndex()
scanDecDigits(lx) ==
  advanceTo(lx, {i \in lx.index..lx.length :
                   ~isDecDigit(codeAt(nextIndex(lx, i - lx.index), 0))})

\* String.prototype.replace(/""/g, '"') on a sequence of characters
RECURSIVE replaceEscapedQuotes(_)
replaceEscapedQuotes(s) ==
  IF s = <<>> THEN <<>>
  ELSE IF Len(s) >= 2 /\ s[1] = "\"" /\ s[2] = "\""
       THEN <<"\"">> \o replaceEscapedQuotes(SubSeq(s, 3, Len(s)))
  ELSE <<s[1]>> \o replaceEscapedQuotes(Tail(s))

\* the while (true) loop of scanStringLiteral; closed is FALSE when the end
\* of the content was reached
scanStringLoop(lx) ==
  LET l1 == nextIndex(lx, 1)
      quote == codeAt(l1, 0) = "\""
      l2 == IF quote /\ isStringEscaped(l1) THEN nextIndex(l1, 1) ELSE l1
  IN IF quote /\ ~isStringEscaped(l1) THEN [lx |-> l1, closed |-> TRUE]
     ELSE IF ~isNotEOF(l2) THEN [lx |-> l2, closed |-> FALSE]
     ELSE Call("scanStringLoop", <<l2>>)

readDecLiteral(lx) ==
  LET l1 == Call("scanDecDigits", <<lx>>)
      l2 == IF codeAt(l1, 0) = "." THEN Call("scanDecDigits", <<nextIndex(l1, 1)>>) ELSE l1
      l3 == IF codeAt(l2, 0) \in {"E", "e"}
            THEN LET l4 == nextIndex(l2, 1)
                     l5 == IF codeAt(l4, 0) \in {"-", "+"}
                           THEN nextIndex(l4, 1) ELSE l4
                 IN Call("scanDecDigits", <<l5>>)
            ELSE l2
  IN l3

\* the digits a numeric text starts with
RECURSIVE leadingDigits(_)
leadingDigits(s) ==
  IF s # <<>> /\ Head(s) \in Digits THEN <<Head(s)>> \o leadingDigits(Tail(s))
  ELSE <<>>

RECURSIVE stripLeadingZeros(_)
stripLeadingZeros(s) ==
  IF s # <<>> /\ Head(s) = "0" THEN stripLeadingZeros(Tail(s)) ELSE s

stripTrailingZeros(s) ==
  LET keep == {i \in 1..Len(s) : s[i] # "0"}
  IN IF keep = {} THEN <<>>
     ELSE SubSeq(s, 1, CHOOSE i \in keep : \A j \in keep : j <= i)

digitValue(c) ==
  CASE c = "0" -> 0 [] c = "1" -> 1 [] c = "2" -> 2 [] c = "3" -> 3
    [] c = "4" -> 4 [] c = "5" -> 5 [] c = "6" -> 6 [] c = "7" -> 7
    [] c = "8" -> 8 [] c = "9" -> 9

RECURSIVE digitsToInt(_)
digitsToInt(s) ==
  IF s = <<>> THEN 0
  ELSE 10 * digitsToInt(SubSeq(s, 1, Len(s) - 1)) + digitValue(s[Len(s)])

zeros(n) == [i \in 1..n |-> "0"]

\* parseFloat of the text of a decimal literal (digits, an optional
\* fraction, an optional exponent), as the characters of the decimal text
\* of the number: a number is kept as the text JavaScript prints for it,
\* which is the same for two texts exactly when they denote the same number
\* (for magnitudes printed without an exponent)
afterDigits(s) == SubSeq(s, Len(leadingDigits(s)) + 1, Len(s))

signedDigits(s) ==
  IF s # <<>> /\ Head(s) = "-" THEN 0 - digitsToInt(leadingDigits(Tail(s)))
  ELSE IF s # <<>> /\ Head(s) = "+" THEN digitsToInt(leadingDigits(Tail(s)))
  ELSE digitsToInt(leadingDigits(s))

exponentOf(s) ==
  IF s # <<>> /\ Head(s) \in {"e", "E"} THEN signedDigits(Tail(s)) ELSE 0

placePoint(digits, point) ==
  LET b == stripLeadingZeros(
             IF point <= 0 THEN <<>>
             ELSE IF point >= Len(digits)
             THEN digits \o zeros(point - Len(digits))
             ELSE SubSeq(digits, 1, point))
      a == stripTrailingZeros(
             IF point <= 0 THEN zeros(0 - point) \o digits
             ELSE IF point >= Len(digits) THEN <<>>
             ELSE SubSeq(digits, point + 1, Len(digits)))
  IN (IF b = <<>> THEN <<"0">> ELSE b) \o (IF a = <<>> THEN <<>> ELSE <<".">> \o a)

withFraction(whole, fraction, rest) ==
  placePoint(whole \o fraction, Len(whole) + exponentOf(rest))

afterWhole(whole, rest) ==
  IF rest # <<>> /\ Head(rest) = "."
  THEN withFraction(whole, leadingDigits(Tail(rest)), afterDigits(Tail(rest)))
  ELSE withFraction(whole, <<>>, rest)

parseFloatDigits(s) == afterWhole(leadingDigits(s), afterDigits(s))

parseFloat(s) == Join(parseFloatDigits(s))

\* the numeric token carries the number parseFloat makes of its text
scanNumericLiteral(lx) ==
  LET l1 == Call("readDecLiteral", <<lx>>)
  IN LexResult(l1,
       createToken("NumericLiteral",
                   parseFloat(SubSeq(l1.content, l1.tokenStart + 1,
                                     Min(l1.index, Len(l1.content)))),
                   l1.line, l1.lineStart, <<l1.tokenStart, l1.index>>,
                   l1.offset, 0, 0),
       "ok")

\* a variant of scanPunctuator whose token reaches over the two characters
\* after the punctuator
scanPunctuatorWithNextCharacters(lx, value) ==
  LET l1 == [lx EXCEPT !.index = lx.index + Len(value)]
  IN LexResult(l1,
       createToken("Punctuator", value, l1.line, l1.lineStart,
                   <<l1.tokenStart, l1.index + 2>>, l1.offset, 0, 0),
       "ok")

scanPunctuator(lx, value) ==
  LET l1 == [lx EXCEPT !.index = lx.index + Len(value)]
  IN LexResult(l1,
       createToken("Punctuator", value, l1.line, l1.lineStart,
                   <<l1.tokenStart, l1.index>>, l1.offset, 0, 0),
       "ok")

scanSliceOperator(lx) ==
  LET l1 == [lx EXCEPT !.index = lx.index + 1]
  IN LexResult(l1,
       createToken("SliceOperator", ":", l1.line, l1.lineStart,
                   <<l1.tokenStart, l1.index>>, l1.offset, 0, 0),
       "ok")

scanIdentifierOrKeyword(lx) ==
  LET l1 == Call("scanIdentifierPart", <<nextIndex(lx, 1)>>)
      value == Slice(l1.content, l1.tokenStart, l1.index)
      lEnd == Call("scanIdentifierPart", <<nextIndex(l1, 1)>>)
      elseIfStatement == Slice(l1.content, l1.tokenStart, l1.index + 3)
      l2 == IF isKeyword(value) /\ value = "end" THEN lEnd
            ELSE IF isKeyword(value) /\ value = "else"
                    /\ elseIfStatement = "else if" THEN nextIndex(l1, 3)
            ELSE l1
      type == IF isKeyword(value) THEN "Keyword"
              ELSE IF value \in {"true", "false"} THEN "BooleanLiteral"
              ELSE IF value = "null" THEN "NilLiteral"
              ELSE "Identifier"
      value2 == IF isKeyword(value) /\ value = "end"
                THEN Slice(l2.content, l2.tokenStart, l2.index)
                ELSE IF isKeyword(value) /\ value = "else"
                        /\ elseIfStatement = "else if" THEN elseIfStatement
                ELSE value
  IN LexResult(l2,
       createToken(type, value2, l2.line, l2.lineStart,
                   <<l2.tokenStart, l2.index>>, l2.offset, 0, 0),
       "ok")

\* the loop of skipToNextLine.  Its condition reads the end of the content
\* negated, so it only runs at the end of the content, where neither the
\* character read (NaN) nor the end test can change again.
skipToNextLineLoop(lx, spin) ==
  IF ~isEndOfLine(codeAt(lx, 0)) /\ ~isNotEOF(lx)
  THEN IF spin >= MaxSpin THEN [lx |-> lx, exits |-> FALSE]
       ELSE Call("skipToNextLineLoop", <<nextIndex(lx, 1), spin + 1>>)
  ELSE [lx |-> lx, exits |-> TRUE]


skipToNextLine(lx, depth) ==
  LET loop == Call("skipToNextLineLoop", <<lx, 0>>)
      l1 == nextLine(loop.lx)
      l2 == [l1 EXCEPT !.offset = l1.index]
  IN IF ~loop.exits THEN LexResult(loop.lx, NoToken, "hang")
     ELSE Call("Lexer_next", <<l2, depth + 1>>)

Lexer_raise(lx, err, depth) ==
  LET l1 == [lx EXCEPT !.errors = Append(lx.errors, err)]
      skipped == Call("skipToNextLine", <<l1, depth>>)
  IN IF l1.unsafe
     THEN IF skipped.st # "ok" THEN skipped
          ELSE Call("Lexer_next", <<skipped.lx, depth + 1>>)
     ELSE LexResult(l1, NoToken, "throw")

scanStringLiteral(lx, depth) ==
  LET beginLine == lx.line
      beginLineStart == lx.lineStart
      stringStart == lx.index + 1
      loop == Call("scanStringLoop", <<lx>>)
      l1 == nextIndex(loop.lx, 1)
      string == Join(replaceEscapedQuotes(
                  SubSeq(l1.content, stringStart + 1, l1.index - 1)))
  IN IF ~loop.closed
     THEN Call("Lexer_raise", <<loop.lx, [type |-> "UnexpectedStringEOL", line |-> beginLine],
                depth>>)
     ELSE LexResult(l1,
            createToken("StringLiteral", string, beginLine, beginLineStart,
                        <<l1.tokenStart, l1.index>>, l1.offset,
                        l1.line, l1.lineStart),
            "ok")

\* scan answers null for a character that starts no token
NullResult(lx) == LexResult(lx, NoToken, "null")

scan(lx, code, nextCode, lastCode, depth) ==
  CASE code = "\"" -> Call("scanStringLiteral", <<lx, depth>>)
    [] code = "." -> IF isDecDigit(code) THEN Call("scanNumericLiteral", <<lx>>)
                     ELSE Call("scanPunctuator", <<lx, ".">>)
    [] code = "=" -> IF nextCode = "=" THEN Call("scanPunctuator", <<lx, "==">>)
                     ELSE Call("scanPunctuator", <<lx, "=">>)
    [] code = "<" -> IF nextCode = "=" THEN Call("scanPunctuator", <<lx, "<=">>)
                     ELSE IF nextCode = "<" THEN Call("scanPunctuator", <<lx, "<<">>)
                     ELSE Call("scanPunctuator", <<lx, "<">>)
    [] code = ">" -> IF nextCode = "=" THEN Call("scanPunctuator", <<lx, ">=">>)
                     ELSE IF nextCode = ">"
                          THEN IF lastCode = ">" THEN Call("scanPunctuator", <<lx, ">>>">>)
                               ELSE Call("scanPunctuator", <<lx, ">>">>)
                     ELSE Call("scanPunctuator", <<lx, ">">>)
    [] code = "!" -> IF nextCode = "=" THEN Call("scanPunctuator", <<lx, "!=">>)
                     ELSE NullResult(lx)
    [] code = "-" -> IF nextCode = "=" THEN Call("scanPunctuator", <<lx, "-=">>)
                     ELSE Call("scanPunctuator", <<lx, "-">>)
    [] code = "+" -> IF nextCode = "=" THEN Call("scanPunctuator", <<lx, "+=">>)
                     ELSE Call("scanPunctuator", <<lx, "+">>)
    [] code = "*" -> IF nextCode = "=" THEN Call("scanPunctuator", <<lx, "*=">>)
                     ELSE Call("scanPunctuator", <<lx, "*">>)
    [] code = "/" -> IF nextCode = "=" THEN Call("scanPunctuator", <<lx, "/=">>)
                     ELSE Call("scanPunctuator", <<lx, "/">>)
    [] code = ":" -> Call("scanSliceOperator", <<lx>>)
    [] code \in {"^", "%", ",", "{", "}", "[", "]", "(", ")", "@", "&", "|"}
         -> Call("scanPunctuator", <<lx, code>>)
    [] code \in Digits -> Call("scanNumericLiteral", <<lx>>)
    [] code = ";" -> LET l1 == nextIndex(lx, 1)
                     IN LexResult(l1, createEOL(l1), "ok")
    [] OTHER -> NullResult(lx)

\* a variant of Lexer_next that counts a line each time it returns the end of
\* the file
Lexer_nextCountingLineAtEOF(lx, depth) ==
  IF depth > MaxStack THEN LexResult(lx, NoToken, "RangeError")
  ELSE
  LET l1 == Call("skipComments", <<Call("skipWhiteSpace", <<lx>>)>>)
      code == codeAt(l1, 0)
      nextCode == codeAt(l1, 1)
      lastCode == codeAt(l1, 2)
      l2 == [l1 EXCEPT !.tokenStart = l1.index]
      l3 == IF (code = "\n" /\ nextCode = "\r") \/ (code = "\r" /\ nextCode = "\n")
            THEN nextIndex(l2, 1) ELSE l2
      l4 == nextLine(l3)
      l5 == [l4 EXCEPT !.offset = l4.index + 1,
                       !.lineStart = l4.index + 1,
                       !.index = l4.index + 1]
      item == Call("scan", <<l2, code, nextCode, lastCode, depth>>)
  IN IF ~isNotEOF(l1)
     THEN LexResult(nextLine(l1),
            createToken("EOF", "<eof>", l1.line, l1.lineStart,
                        <<l1.index, l1.index>>, l1.offset, 0, 0),
            "ok")
     ELSE IF isEndOfLine(code) THEN LexResult(l5, createEOL(l3), "ok")
     ELSE IF isIdentifierStart(code) THEN Call("scanIdentifierOrKeyword", <<l2>>)
     ELSE IF item.st # "null" THEN item
     ELSE Call("Lexer_raise", <<l2, [type |-> "InvalidCharacter", line |-> l2.line], depth>>)

Lexer_next(lx, depth) ==
  IF depth > MaxStack THEN LexResult(lx, NoToken, "RangeError")
  ELSE
  LET l1 == Call("skipComments", <<Call("skipWhiteSpace", <<lx>>)>>)
      code == codeAt(l1, 0)
      nextCode == codeAt(l1, 1)
      lastCode == codeAt(l1, 2)
      l2 == [l1 EXCEPT !.tokenStart = l1.index]
      \* end of line
      l3 == IF (code = "\n" /\ nextCode = "\r") \/ (code = "\r" /\ nextCode = "\n")
            THEN nextIndex(l2, 1) ELSE l2
      l4 == nextLine(l3)
      l5 == [l4 EXCEPT !.offset = l4.index + 1,
                       !.lineStart = l4.index + 1,
                       !.index = l4.index + 1]
      item == Call("scan", <<l2, code, nextCode, lastCode, depth>>)
  IN IF ~isNotEOF(l1)
     THEN LexResult(l1,
            createToken("EOF", "<eof>", l1.line, l1.lineStart,
                        <<l1.index, l1.index>>, l1.offset, 0, 0),
            "ok")
     ELSE IF isEndOfLine(code) THEN LexResult(l5, createEOL(l3), "ok")
     ELSE IF isIdentifierStart(code) THEN Call("scanIdentifierOrKeyword", <<l2>>)
     ELSE IF item.st # "null" THEN item
     ELSE Call("Lexer_raise", <<l2, [type |-> "InvalidCharacter", line |-> l2.line], depth>>)

(***************************************************************************)
(* Tables of the parser: parser/validator (src/unnamed/part_018),          *)
(* src/src/parser/precedence.ts                                            *)
(***************************************************************************)
\* a variant of the table below in which else does not end a shortcut body
getBreakingBlockShortcutKeywordsWithoutElse ==
  {"else if", "<eof>", "end for", "end while", "end function", "end if"}

getBreakingBlockShortcutKeywords ==
  {"else", "else if", "<eof>", "end for", "end while", "end function", "end if"}

getNatives ==
  {"globals", "locals", "sqrt", "hash", "abs", "floor", "range", "round",
   "sign", "str", "ceil", "acos", "asin", "atan", "tan", "cos", "sin",
   "launch_path", "hasIndex", "rnd", "slice", "pi", "typeof", "self",
   "params", "char", "print", "wait", "time", "md5", "get_router",
   "get_shell", "nslookup", "whois", "is_valid_ip", "is_lan_ip",
   "command_info", "current_date", "current_path", "parent_path", "home_dir",
   "program_path", "active_user", "user_mail_address", "user_bank_number",
   "format_columns", "user_input", "include_lib", "bitwise", "clear_screen",
   "exit"}

getLiterals == {"StringLiteral", "NumericLiteral", "BooleanLiteral", "NilLiteral"}

getExpressionOperators ==
  {"+", "*", "-", "/", "%", "<", ">", "<=", ">=", "!=", "==", "or", "and",
   "&", "|", "^", "<<", ">>", ">>>"}

isBreakingBlockShortcutKeyword(value) == value \in getBreakingBlockShortcutKeywords
isNative(value) == value \in getNatives
isLiteral(type) == type \in getLiterals
isExpressionOperator(value) == value \in getExpressionOperators

getPrecedence(operator) ==
  CASE operator = "^" -> 12
    [] operator \in {"*", "%", "/"} -> 10
    [] operator \in {"+", "-"} -> 9
    [] operator \in {"and", "&"} -> 2
    [] operator \in {"or", "|"} -> 1
    [] operator \in {"<", ">", "<=", ">=", "==", "!="} -> 3
    [] operator \in {"<<", ">>", ">>>"} -> 7
    [] OTHER -> 0

(***************************************************************************)
(* Syntax tree nodes.  A scope (the chunk or a function) and an            *)
(* if-statement are objects the parser keeps changing after it has created *)
(* them; a node refers to them by an index into parser.scopeTab and        *)
(* parser.ifEnd.                                                           *)
(***************************************************************************)
Null == [type |-> "null"]
NullPosition == Position(0, 0)
NoScope == 0

(***************************************************************************)
(* The parser: src/src/parser.ts                                           *)
(***************************************************************************)
\* st is how the call in progress ended: "ok", "throw" (ParserException or a
\* tokenizer error thrown in strict mode), "TypeError", "RangeError" or
\* "hang"; ret is the value the last method returned and flag the boolean
\* consume() returned.  recovered and stalled are observations: the tokens
\* every recovery of raise() stepped over, and whether an iteration of a
\* statement or element loop left the cursor where it was.
NewParser(content, unsafe, tabWidth) ==
  [content |-> content,
   lexer |-> NewLexer(content, unsafe, tabWidth),
   history |-> <<>>, prefetchedTokens |-> <<>>,
   token |-> NoToken, previousToken |-> NoToken,
   nativeImports |-> <<>>, lines |-> <<>>, scopes |-> <<>>,
   currentScope |-> NoScope, outerScopes |-> <<>>, literals |-> <<>>,
   unsafe |-> unsafe, errors |-> <<>>, endIfOnShortcutStack |-> <<>>,
   scopeTab |-> <<>>, ifEnd |-> <<>>,
   st |-> "ok", ret |-> Null, flag |-> FALSE,
   detected |-> <<>>, recovered |-> <<>>, stalled |-> FALSE]

Ok(p) == p.st = "ok"
Ret(p, value) == [p EXCEPT !.ret = value]

\* the number of advances of the cursor so far
Advances(p) ==
  Len(p.history) + (IF p.previousToken # NoToken THEN 1 ELSE 0)
                 + (IF p.token # NoToken THEN 1 ELSE 0)

prefetchLoop(p, offset) ==
  IF Len(p.prefetchedTokens) < offset
  THEN LET r == Call("Lexer_next", <<p.lexer, 0>>)
           p1 == [p EXCEPT !.lexer = r.lx]
           p2 == [p1 EXCEPT !.prefetchedTokens = Append(p.prefetchedTokens, r.tok)]
       IN IF r.st # "ok" THEN [p1 EXCEPT !.st = r.st]
          ELSE IF r.tok.type = "EOF" THEN p2
          ELSE Call("prefetchLoop", <<p2, offset>>)
  ELSE p

\* prefetch(offset): ret is the token at that lookahead distance
prefetch(p, offset) ==
  LET p1 == Call("prefetchLoop", <<p, offset>>)
  IN IF p1.st # "ok" THEN p1
     ELSE Ret(p1, IF offset <= Len(p1.prefetchedTokens)
                  THEN p1.prefetchedTokens[offset] ELSE NoToken)

fetch(p) ==
  LET p1 == Call("prefetch", <<p, 1>>)
  IN IF p1.st # "ok" THEN p1
     ELSE [p1 EXCEPT !.ret = Head(p1.prefetchedTokens),
                     !.prefetchedTokens = Tail(p1.prefetchedTokens)]

\* next() that does not keep the tokens before the previous one
Parser_nextForgetting(p) ==
  LET p3 == Call("fetch", <<[p EXCEPT !.previousToken = p.token]>>)
  IN IF p3.st # "ok" THEN p3 ELSE [p3 EXCEPT !.token = p3.ret, !.ret = Null]

Parser_next(p) ==
  LET p1 == IF p.previousToken # NoToken
            THEN [p EXCEPT !.history = Append(p.history, p.previousToken)]
            ELSE p
      p2 == [p1 EXCEPT !.previousToken = p.token]
      p3 == Call("fetch", <<p2>>)
  IN IF p3.st # "ok" THEN p3
     ELSE [p3 EXCEPT !.token = p3.ret, !.ret = Null]

\* String.prototype.startsWith on the text of a keyword token
startsWith(content, token, prefix) ==
  LET raw == SubSeq(content, token.range[1] + 1, Min(token.range[2], Len(content)))
  IN Len(raw) >= Len(prefix) /\ Join(SubSeq(raw, 1, Len(prefix))) = prefix

\* endBlocks is a set of keywords; the empty set stands for no argument
isBlockEnd(p, token, endBlocks) ==
  \/ token.type = "EOF"
  \/ /\ endBlocks # {} /\ token.type = "Keyword"
     /\ \E e \in endBlocks : startsWith(p.content, token, e)

\* isType that accepts a token of any type
isTypeOfAny(p, type) == p.token # NoToken

isType(p, type) == p.token # NoToken /\ type = p.token.type

is(p, type, value) ==
  p.token # NoToken /\ value = p.token.value /\ type = p.token.type

consume(p, type, value) ==
  IF is(p, type, value) THEN [Call("Parser_next", <<p>>) EXCEPT !.flag = TRUE]
  ELSE [p EXCEPT !.flag = FALSE]

skipNewlines(p) ==
  LET p1 == Call("consume", <<p, "EOL", ";">>)
  IN IF p1.st # "ok" \/ ~p1.flag THEN p1 ELSE Call("skipNewlines", <<p1>>)

\* a variant of pushScope that leaves the scope out of parser.scopes when the
\* parser is unsafe
pushScopeUnlistedWhenUnsafe(p, scope) ==
  LET p1 == IF p.currentScope # NoScope
            THEN [p EXCEPT !.scopes = IF p.unsafe THEN @ ELSE Append(@, scope),
                           !.outerScopes = Append(p.outerScopes, p.currentScope)]
            ELSE p
  IN [p1 EXCEPT !.currentScope = scope]

pushScope(p, scope) ==
  LET p1 == IF p.currentScope # NoScope
            THEN [p EXCEPT !.scopes = Append(p.scopes, scope),
                           !.outerScopes = Append(p.outerScopes, p.currentScope)]
            ELSE p
  IN [p1 EXCEPT !.currentScope = scope]

popScope(p) ==
  IF p.outerScopes = <<>> THEN [p EXCEPT !.currentScope = NoScope]
  ELSE [p EXCEPT !.currentScope = p.outerScopes[Len(p.outerScopes)],
                 !.outerScopes = SubSeq(p.outerScopes, 1, Len(p.outerScopes) - 1)]

isUnary(token) ==
  CASE token.type = "Punctuator" -> token.value \in {"@", "-", "+"}
    [] token.type = "Keyword" -> token.value \in {"new", "not"}
    [] OTHER -> FALSE

\* raise(message, token): in unsafe mode ret is the placeholder node
raiseSkip(p, skipped) ==
  IF p.token.type # "EOL" /\ p.token.type # "EOF"
  THEN LET p1 == Call("Parser_next", <<p>>)
       IN IF p1.st # "ok" THEN p1 ELSE Call("raiseSkip", <<p1, Append(skipped, p.token)>>)
  ELSE Ret(p, skipped)

\* a variant of raise that steps to the end of the line before it throws
Parser_raiseAfterRecovery(p, message, token) ==
  LET p1 == [p EXCEPT !.errors = Append(p.errors,
                         [message |-> message, token |-> token]),
                      !.detected = Append(p.detected, p.token)]
      base == [type |-> "InvalidCodeExpression",
               start |-> getStart(p.token), end |-> getEnd(p.token)]
      p2 == Call("Parser_next", <<p1>>)
      p3 == Call("raiseSkip", <<p2, <<p.token>>>>)
  IN IF p2.st # "ok" THEN p2
     ELSE IF p3.st # "ok" THEN p3
     ELSE [p3 EXCEPT !.ret = base,
                     !.st = IF p.unsafe THEN "ok" ELSE "throw",
                     !.recovered = Append(p.recovered,
                        [at |-> p.token, skipped |-> p3.ret, stop |-> p3.token])]

Parser_raise(p, message, token) ==
  LET p1 == [p EXCEPT !.errors = Append(p.errors,
                         [message |-> message, token |-> token]),
                      !.detected = Append(p.detected, p.token)]
      base == [type |-> "InvalidCodeExpression",
               start |-> getStart(p.token), end |-> getEnd(p.token)]
      p2 == Call("Parser_next", <<p1>>)
      p3 == Call("raiseSkip", <<p2, <<p.token>>>>)
  IN IF ~p.unsafe THEN [p1 EXCEPT !.st = "throw"]
     ELSE IF p2.st # "ok" THEN p2
     ELSE IF p3.st # "ok" THEN p3
     ELSE [p3 EXCEPT !.ret = base,
                     !.recovered = Append(p.recovered,
                        [at |-> p.token, skipped |-> p3.ret, stop |-> p3.token]),
                     !.stalled = p.stalled
                        \/ (p.token.type # "EOF" /\ Advances(p3) = Advances(p))]


\* an iteration of a loop that started at p0 and ended at p
Stall(p0, p) ==
  [p EXCEPT !.stalled = p.stalled
              \/ (p0.token.type # "EOF" /\ Advances(p) = Advances(p0))]

\* a variant of parseIdentifier that records every name in the scope of the
\* chunk
parseIdentifierInChunkScope(p) ==
  LET start == getStart(p.token)
      end == getEnd(p.token)
      identifier == p.token.value
      p1 == IF ~isNative(identifier)
            THEN [p EXCEPT !.scopeTab[1].namespaces = @ \cup {identifier}]
            ELSE p
      p2 == Call("Parser_next", <<p1>>)
  IN IF ~isType(p, "Identifier")
     THEN Call("Parser_raise", <<p, "Unexpected identifier", p.token>>)
     ELSE IF p2.st # "ok" THEN p2
     ELSE Ret(p2, [type |-> "Identifier", name |-> identifier,
                   start |-> start, end |-> end, scope |-> p2.currentScope])

parseIdentifier(p) ==
  LET start == getStart(p.token)
      end == getEnd(p.token)
      identifier == p.token.value
      p1 == IF ~isNative(identifier)
            THEN [p EXCEPT !.scopeTab[p.currentScope].namespaces =
                              @ \cup {identifier}]
            ELSE p
      p2 == Call("Parser_next", <<p1>>)
  IN IF ~isType(p, "Identifier")
     THEN Call("Parser_raise", <<p, "Unexpected identifier", p.token>>)
     ELSE IF p2.st # "ok" THEN p2
     ELSE Ret(p2, [type |-> "Identifier", name |-> identifier,
                   start |-> start, end |-> end, scope |-> p2.currentScope])

\* ret of the loop: how it ended ("break" or "return"), the fields and
\* lastToken
parseMapLoop(p, fields, lastToken) ==
  IF is(p, "Punctuator", "}")
  THEN Ret(p, [how |-> "break", fields |-> fields, lastToken |-> lastToken])
  ELSE
  LET p1 == Call("skipNewlines", <<p>>) IN IF p1.st # "ok" THEN p1 ELSE
  LET p2 == Call("parseExpression", <<p1>>) IN IF p2.st # "ok" THEN p2 ELSE
  LET key == p2.ret IN
  IF key = Null
  THEN LET r == Call("Parser_raise", <<p2, "Missing key value in map", p2.token>>)
       IN IF r.st # "ok" THEN r
          ELSE Ret(r, [how |-> "return", node |-> r.ret])
  ELSE
  LET p3 == Call("skipNewlines", <<p2>>) IN IF p3.st # "ok" THEN p3 ELSE
  LET p4 == Call("consume", <<p3, "SliceOperator", ":">>) IN IF p4.st # "ok" THEN p4 ELSE
  IF ~p4.flag
  THEN LET r == Call("Parser_raise", <<p4, "Map constructor requires seperator", p4.token>>)
       IN IF r.st # "ok" THEN r
          ELSE Ret(r, [how |-> "return", node |-> r.ret])
  ELSE
  LET p5 == Call("skipNewlines", <<p4>>) IN IF p5.st # "ok" THEN p5 ELSE
  LET p6 == Call("parseExpression", <<p5>>) IN IF p6.st # "ok" THEN p6 ELSE
  LET value == p6.ret
      p7 == IF value = Null
            THEN Call("Parser_raise", <<p6, "Missing value in map", p6.token>>)
            ELSE p6
  IN IF p7.st # "ok" THEN p7 ELSE
  LET p8 == Call("skipNewlines", <<p7>>) IN IF p8.st # "ok" THEN p8 ELSE
  \* value.end of a null value
  IF value = Null THEN [p8 EXCEPT !.st = "TypeError"] ELSE
  LET field == [type |-> "MapKeyString", key |-> key, value |-> value,
                start |-> key.start, end |-> value.end,
                scope |-> p8.currentScope]
      p9 == Call("consume", <<p8, "Punctuator", ",">>)
  IN IF p9.st # "ok" THEN p9
     ELSE IF ~p9.flag
     THEN Ret(Stall(p, p9), [how |-> "break", fields |-> Append(fields, field),
                             lastToken |-> p5.token])
     ELSE Call("parseMapLoop", <<Stall(p, p9), Append(fields, field), p5.token>>)

parseMapConstructor(p) ==
  LET start == getStart(p.token)
      p1 == Call("consume", <<p, "Punctuator", "{">>)
  IN IF p1.st # "ok" THEN p1
     ELSE IF ~p1.flag
     THEN Call("Parser_raise", <<p1, "Map requires opening bracket", p1.token>>)
     ELSE
     LET p2 == Call("parseMapLoop", <<p1, <<>>, p.token>>) IN IF p2.st # "ok" THEN p2 ELSE
     IF p2.ret.how = "return" THEN Ret(p2, p2.ret.node) ELSE
     LET p3 == Call("consume", <<p2, "Punctuator", "}">>) IN IF p3.st # "ok" THEN p3 ELSE
     IF ~p3.flag
     THEN Call("Parser_raise", <<p3, "Map requires closing bracket", p2.ret.lastToken>>)
     ELSE Ret(p3, [type |-> "MapConstructorExpression",
                   fields |-> p2.ret.fields, start |-> start,
                   end |-> getStart(p3.token), scope |-> p3.currentScope])

parseListLoop(p, fields, lastToken) ==
  IF is(p, "Punctuator", "]")
  THEN Ret(p, [how |-> "break", fields |-> fields, lastToken |-> lastToken])
  ELSE
  LET p1 == Call("skipNewlines", <<p>>) IN IF p1.st # "ok" THEN p1 ELSE
  LET p2 == Call("parseExpression", <<p1>>) IN IF p2.st # "ok" THEN p2 ELSE
  LET value == p2.ret IN
  IF value = Null
  THEN LET r == Call("Parser_raise", <<p2, "Expect value in list", p2.token>>)
       IN IF r.st # "ok" THEN r
          ELSE Ret(r, [how |-> "return", node |-> r.ret])
  ELSE
  LET field == [type |-> "ListValue", value |-> value, start |-> value.start,
                end |-> value.end, scope |-> p2.currentScope]
      p3 == Call("skipNewlines", <<p2>>)
  IN IF p3.st # "ok" THEN p3 ELSE
  LET p4 == Call("consume", <<p3, "Punctuator", ",">>) IN IF p4.st # "ok" THEN p4 ELSE
  IF ~p4.flag
  THEN Ret(Stall(p, p4), [how |-> "break", fields |-> Append(fields, field),
                          lastToken |-> p1.token])
  ELSE Call("parseListLoop", <<Stall(p, p4), Append(fields, field), p1.token>>)

parseListConstructor(p) ==
  LET start == getStart(p.token)
      p1 == Call("consume", <<p, "Punctuator", "[">>)
  IN IF p1.st # "ok" THEN p1
     ELSE IF ~p1.flag
     THEN Call("Parser_raise", <<p1, "List requires opening bracket", p1.token>>)
     ELSE
     LET p2 == Call("parseListLoop", <<p1, <<>>, p.token>>) IN IF p2.st # "ok" THEN p2 ELSE
     IF p2.ret.how = "return" THEN Ret(p2, p2.ret.node) ELSE
     LET p3 == Call("consume", <<p2, "Punctuator", "]">>) IN IF p3.st # "ok" THEN p3 ELSE
     IF ~p3.flag
     THEN Call("Parser_raise", <<p3, "List requires closing bracket", p2.ret.lastToken>>)
     ELSE Ret(p3, [type |-> "ListConstructorExpression",
                   fields |-> p2.ret.fields, start |-> start,
                   end |-> getStart(p3.token), scope |-> p3.currentScope])

\* a variant of parseRighthandExpressionGreedy that looks for the next part
\* of the expression past the end of the line
parseRighthandExpressionGreedyAcrossLines(p, base) ==
  LET p0 == Call("skipNewlines", <<p>>) IN IF p0.st # "ok" THEN p0 ELSE
  LET p1 == Call("parseRighthandExpressionPart", <<p0, base>>)
  IN IF p1.st # "ok" THEN p1
     ELSE IF p1.ret = Null THEN Ret(p1, base)
     ELSE Call("parseRighthandExpressionGreedy", <<p1, p1.ret>>)

parseRighthandExpressionGreedy(p, base) ==
  LET p1 == Call("parseRighthandExpressionPart", <<p, base>>)
  IN IF p1.st # "ok" THEN p1
     ELSE IF p1.ret = Null THEN Ret(p1, base)
     ELSE Call("parseRighthandExpressionGreedy", <<p1, p1.ret>>)

parseRighthandExpression(p) ==
  IF p.token.type = "Identifier"
  THEN LET p1 == Call("parseIdentifier", <<p>>)
       IN IF p1.st # "ok" THEN p1 ELSE Call("parseRighthandExpressionGreedy", <<p1, p1.ret>>)
  ELSE
  LET p1 == Call("consume", <<p, "Punctuator", "(">>) IN IF p1.st # "ok" THEN p1 ELSE
  IF ~p1.flag THEN Ret(p1, Null) ELSE
  LET p2 == Call("parseExpectedExpression", <<p1>>) IN IF p2.st # "ok" THEN p2 ELSE
  LET p3 == Call("consume", <<p2, "Punctuator", ")">>) IN IF p3.st # "ok" THEN p3 ELSE
  IF ~p3.flag THEN Call("Parser_raise", <<p3, "Expected closing ')'", p3.token>>)
  ELSE Call("parseRighthandExpressionGreedy", <<p3, p2.ret>>)

\* String.prototype.charAt(0) of a shorthand operator
charAt0(value) ==
  CASE value = "+=" -> "+" [] value = "-=" -> "-"
    [] value = "*=" -> "*" [] value = "/=" -> "/"

parseAssignmentShorthandOperator(p, base) ==
  LET assignmentStart == base.start
      binaryExpressionStart == getStart(p.token)
      operator == charAt0(p.previousToken.value)
      p1 == Call("parseSubExpression", <<p, 0>>)
  IN IF p1.st # "ok" THEN p1 ELSE
  LET end == getEnd(p1.token)
      expression == [type |-> "BinaryExpression", operator |-> operator,
                     left |-> base, right |-> p1.ret,
                     start |-> binaryExpressionStart, end |-> end,
                     scope |-> p1.currentScope]
      assignmentStatement ==
        [type |-> "AssignmentStatement", variable |-> base,
         init |-> expression, start |-> assignmentStart, end |-> end,
         scope |-> p1.currentScope]
  IN Ret([p1 EXCEPT !.scopeTab[p1.currentScope].assignments =
                       Append(@, assignmentStatement)],
         assignmentStatement)

EmptyExpression(start, end, scope) ==
  [type |-> "EmptyExpression", start |-> start, end |-> end, scope |-> scope]

parseIndexExpression(p, base) ==
  LET start == getStart(p.token)
      p1 == Call("consume", <<p, "SliceOperator", ":">>)
  IN IF p1.st # "ok" THEN p1 ELSE
  IF p1.flag
  THEN \* right side slice
    LET left == EmptyExpression(getStart(p1.previousToken),
                                getEnd(p1.previousToken), p1.currentScope)
        p2 == Call("parseExpectedExpression", <<p1>>)
    IN IF p2.st # "ok" THEN p2 ELSE
    LET p3 == Call("consume", <<p2, "Punctuator", "]">>) IN IF p3.st # "ok" THEN p3 ELSE
    IF ~p3.flag THEN Call("Parser_raise", <<p3, "Expected slice to be closed", p3.token>>)
    ELSE
    LET end == getEnd(p3.token)
        sliceExpression == [type |-> "SliceExpression", left |-> left,
                            right |-> p2.ret, start |-> start, end |-> end,
                            scope |-> p3.currentScope]
    IN Ret(p3, [type |-> "IndexExpression", base |-> base,
                index |-> sliceExpression, start |-> start, end |-> end,
                scope |-> p3.currentScope])
  ELSE
    LET p2 == Call("parseExpectedExpression", <<p1>>) IN IF p2.st # "ok" THEN p2 ELSE
    LET expression == p2.ret
        p3 == Call("consume", <<p2, "SliceOperator", ":">>)
    IN IF p3.st # "ok" THEN p3 ELSE
    IF p3.flag
    THEN \* slice
      LET p4 == IF ~is(p3, "Punctuator", "]") THEN Call("parseExpectedExpression", <<p3>>)
                ELSE Ret(p3, EmptyExpression(getStart(p3.token),
                                             getEnd(p3.token), p3.currentScope))
      IN IF p4.st # "ok" THEN p4 ELSE
      LET right == p4.ret
          p5 == Call("consume", <<p4, "Punctuator", "]">>)
      IN IF p5.st # "ok" THEN p5 ELSE
      IF ~p5.flag THEN Call("Parser_raise", <<p5, "Expected slice to be closed", p5.token>>)
      ELSE
      LET end == getEnd(p5.token)
          sliceExpression == [type |-> "SliceExpression", left |-> expression,
                              right |-> right, start |-> start, end |-> end,
                              scope |-> p5.currentScope]
      IN Ret(p5, [type |-> "IndexExpression", base |-> base,
                  index |-> sliceExpression, start |-> start, end |-> end,
                  scope |-> p5.currentScope])
    ELSE
      LET p4 == Call("consume", <<p3, "Punctuator", "]">>) IN IF p4.st # "ok" THEN p4 ELSE
      IF ~p4.flag
      THEN Call("Parser_raise", <<p4, "Expected index expression to be closed", p4.token>>)
      ELSE Ret(p4, [type |-> "IndexExpression", base |-> base,
                    index |-> expression, start |-> start,
                    end |-> getEnd(p4.token), scope |-> p4.currentScope])

parseRighthandExpressionPart(p, base) ==
  LET start == getStart(p.token)
      value == p.token.value
  IN IF p.token.type # "Punctuator" THEN Ret(p, Null)
     ELSE IF value \in {"+=", "-=", "*=", "/="}
     THEN LET p1 == Call("Parser_next", <<p>>)
          IN IF p1.st # "ok" THEN p1 ELSE Call("parseAssignmentShorthandOperator", <<p1, base>>)
     ELSE IF value = "["
     THEN LET p1 == Call("Parser_next", <<p>>)
          IN IF p1.st # "ok" THEN p1 ELSE Call("parseIndexExpression", <<p1, base>>)
     ELSE IF value = "."
     THEN LET p1 == Call("Parser_next", <<p>>) IN IF p1.st # "ok" THEN p1 ELSE
          LET p2 == Call("consume", <<p1, "EOL", ";">>) IN IF p2.st # "ok" THEN p2 ELSE
          LET p3 == Call("parseIdentifier", <<p2>>) IN IF p3.st # "ok" THEN p3 ELSE
          Ret(p3, [type |-> "MemberExpression", base |-> base, indexer |-> ".",
                   identifier |-> p3.ret, start |-> start,
                   end |-> getEnd(p3.token), scope |-> p3.currentScope])
     ELSE IF is(p, "Punctuator", "(") THEN Call("parseCallExpression", <<p, base>>)
     ELSE Ret(p, Null)

\* ret of the loop: the expressions and lastToken
parseCallLoop(p, expressions, lastToken) ==
  LET p1 == Call("parseExpression", <<p>>) IN IF p1.st # "ok" THEN p1 ELSE
  IF p1.ret = Null
  THEN Ret(p1, [expressions |-> expressions, lastToken |-> lastToken])
  ELSE
  LET p2 == Call("skipNewlines", <<p1>>) IN IF p2.st # "ok" THEN p2 ELSE
  LET p3 == Call("consume", <<p2, "Punctuator", ",">>) IN IF p3.st # "ok" THEN p3 ELSE
  IF ~p3.flag
  THEN Ret(Stall(p, p3), [expressions |-> Append(expressions, p1.ret),
                          lastToken |-> p1.token])
  ELSE LET p4 == Call("skipNewlines", <<p3>>)
       IN IF p4.st # "ok" THEN p4
          ELSE Call("parseCallLoop", <<Stall(p, p4), Append(expressions, p1.ret), p1.token>>)

parseCallExpression(p, base) ==
  LET start == getStart(p.token)
      p1 == Call("consume", <<p, "Punctuator", "(">>)
  IN IF p1.st # "ok" THEN p1 ELSE
  IF ~p1.flag
  THEN Call("Parser_raise", <<p1, "Expected call expression to be opened", p1.token>>)
  ELSE
  LET p2 == Call("skipNewlines", <<p1>>) IN IF p2.st # "ok" THEN p2 ELSE
  LET p3 == Call("parseCallLoop", <<p2, <<>>, p2.token>>) IN IF p3.st # "ok" THEN p3 ELSE
  LET p4 == Call("consume", <<p3, "Punctuator", ")">>) IN IF p4.st # "ok" THEN p4 ELSE
  IF ~p4.flag
  THEN Call("Parser_raise", <<p4, "Expected call expression to be closed", p3.ret.lastToken>>)
  ELSE Ret(p4, [type |-> "CallExpression", base |-> base,
                arguments |-> p3.ret.expressions, start |-> start,
                end |-> getEnd(p4.token), scope |-> p4.currentScope])

\* the text of parseInt(value) || '' for the value of the numeric token at
\* a range: the whole part of the number, nothing when it is 0
parseIntOrEmpty(content, range) ==
  Join(stripLeadingZeros(leadingDigits(
         parseFloatDigits(SubSeq(content, range[1] + 1,
                                 Min(range[2], Len(content)))))))

\* the text of a numeric token's value when it is joined into a string
numberText(content, range) ==
  parseFloat(SubSeq(content, range[1] + 1, Min(range[2], Len(content))))

\* baseValue is the text of baseValue || ''
parseFloatExpression(p, baseValue) ==
  LET start == getStart(p.token)
      p1 == Call("Parser_next", <<p>>)
  IN IF p1.st # "ok" THEN p1 ELSE
  LET tokenValue == IF p1.token.type = "NumericLiteral"
                    THEN numberText(p1.content, p1.token.range)
                    ELSE p1.token.value
      floatValue == baseValue \o "." \o tokenValue
      p2 == Call("Parser_next", <<p1>>)
  IN IF p2.st # "ok" THEN p2 ELSE
  LET base == [type |-> "NumericLiteral", value |-> floatValue,
               raw |-> floatValue, start |-> start, end |-> getEnd(p2.token),
               scope |-> p2.currentScope]
  IN Ret([p2 EXCEPT !.literals = Append(@, base)], base)

parsePrimaryExpression(p) ==
  LET start == getStart(p.token)
      value == p.token.value
      type == p.token.type
  IN
  IF isLiteral(type)
  THEN
    LET raw == Slice(p.content, p.token.range[1], p.token.range[2])
        base == [type |-> type, value |-> value, raw |-> raw, start |-> start,
                 end |-> getEnd(p.token), scope |-> p.currentScope]
        p1 == [p EXCEPT !.literals = Append(@, base)]
        p2 == IF type # "NilLiteral" THEN Call("prefetch", <<p1, 1>>) ELSE p1
    IN IF p2.st # "ok" THEN p2 ELSE
    IF type # "NilLiteral" /\ p2.ret.value = "."
    THEN
      LET p3 == Call("Parser_next", <<p2>>) IN IF p3.st # "ok" THEN p3 ELSE
      LET p4 == IF type = "NumericLiteral" THEN Call("prefetch", <<p3, 1>>) ELSE p3
      IN IF p4.st # "ok" THEN p4 ELSE
      IF type = "NumericLiteral" /\ p4.ret.type = "NumericLiteral"
      THEN Call("parseFloatExpression", <<p4, parseIntOrEmpty(p.content, p.token.range)>>)
      ELSE Call("parseRighthandExpressionGreedy", <<p4, base>>)
    ELSE LET p3 == Call("Parser_next", <<p2>>) IN IF p3.st # "ok" THEN p3 ELSE Ret(p3, base)
  ELSE
    LET p1 == IF value = "." THEN Call("prefetch", <<p, 1>>) ELSE p
    IN IF p1.st # "ok" THEN p1 ELSE
    IF value = "." /\ p1.ret.type = "NumericLiteral"
    THEN Call("parseFloatExpression", <<p1, "">>)
    ELSE IF type = "Keyword" /\ value = "function"
    THEN LET p2 == Call("Parser_next", <<p1>>)
         IN IF p2.st # "ok" THEN p2 ELSE Call("parseFunctionDeclaration", <<p2>>)
    ELSE IF is(p1, "Punctuator", "[")
    THEN LET p2 == Call("parseListConstructor", <<p1>>)
         IN IF p2.st # "ok" THEN p2 ELSE Call("parseRighthandExpressionGreedy", <<p2, p2.ret>>)
    ELSE IF is(p1, "Punctuator", "{")
    THEN LET p2 == Call("parseMapConstructor", <<p1>>)
         IN IF p2.st # "ok" THEN p2 ELSE Call("parseRighthandExpressionGreedy", <<p2, p2.ret>>)
    ELSE Ret(p1, Null)

\* ASTEvaluationExpression.getExpressionType
getExpressionType(operator) ==
  IF operator \in {"and", "or"} THEN "LogicalExpression" ELSE "BinaryExpression"

\* a variant of parseBinaryLoop that does not lower the precedence it passes
\* on for the power operator
parseBinaryLoopWithoutPowerDecrement(p, expression, minPrecedence, start) ==
  LET operator == p.token.value
      found == IF isExpressionOperator(operator) THEN getPrecedence(operator)
               ELSE 0
  IN IF found = 0 \/ found <= minPrecedence THEN Ret(p, expression) ELSE
  LET p1 == Call("Parser_next", <<p>>) IN IF p1.st # "ok" THEN p1 ELSE
  LET p2 == Call("parseSubExpression", <<p1, found>>) IN IF p2.st # "ok" THEN p2 ELSE
  LET right == IF p2.ret = Null
               THEN EmptyExpression(start, getEnd(p2.token), p2.currentScope)
               ELSE p2.ret
      node == [type |-> getExpressionType(operator), operator |-> operator,
               left |-> expression, right |-> right, start |-> start,
               end |-> getEnd(p2.token), scope |-> p2.currentScope]
  IN Call("parseBinaryLoop", <<p2, node, minPrecedence, start>>)

parseBinaryLoop(p, expression, minPrecedence, start) ==
  LET operator == p.token.value
      found == IF isExpressionOperator(operator) THEN getPrecedence(operator)
               ELSE 0
      precedence == IF operator = "^" THEN found - 1 ELSE found
  IN IF found = 0 \/ found <= minPrecedence THEN Ret(p, expression) ELSE
  LET p1 == Call("Parser_next", <<p>>) IN IF p1.st # "ok" THEN p1 ELSE
  LET p2 == Call("parseSubExpression", <<p1, precedence>>) IN IF p2.st # "ok" THEN p2 ELSE
  LET right == IF p2.ret = Null
               THEN EmptyExpression(start, getEnd(p2.token), p2.currentScope)
               ELSE p2.ret
      node == [type |-> getExpressionType(operator), operator |-> operator,
               left |-> expression, right |-> right, start |-> start,
               end |-> getEnd(p2.token), scope |-> p2.currentScope]
  IN Call("parseBinaryLoop", <<p2, node, minPrecedence, start>>)

parseBinaryExpression(p, expression, minPrecedence) ==
  Call("parseBinaryLoop", <<p, expression, minPrecedence, getStart(p.token)>>)

parseUnaryExpressionPart(p, allowedSubUnaries) ==
  LET start == getStart(p.token)
      operator == p.token.value
      p1 == Call("Parser_next", <<p>>)
  IN IF p1.st # "ok" THEN p1 ELSE
  LET p2 == IF isUnary(p1.token) /\ p1.token.value \in allowedSubUnaries
            THEN Call("parseUnaryExpression", <<p1>>) ELSE Ret(p1, Null)
  IN IF p2.st # "ok" THEN p2 ELSE
  LET p3 == IF p2.ret = Null THEN Call("parsePrimaryExpression", <<p2>>) ELSE p2
  IN IF p3.st # "ok" THEN p3 ELSE
  LET p4 == IF p3.ret = Null THEN Call("parseRighthandExpression", <<p3>>) ELSE p3
  IN IF p4.st # "ok" THEN p4 ELSE
  IF p4.ret = Null
  THEN Call("Parser_raise", <<p4, "Unexpected argument for", p4.previousToken>>)
  ELSE Ret(p4, [type |-> "UnaryExpression", operator |-> operator,
                argument |-> p4.ret, start |-> start,
                end |-> getEnd(p4.token), scope |-> p4.currentScope])

\* parseUnaryExpression that lets every prefix wrap every other
parseUnaryExpressionOfAny(p) ==
  Call("parseUnaryExpressionPart", <<p, {"-", "@", "+", "new", "not"}>>)

parseUnaryExpression(p) ==
  CASE p.token.value = "not" -> Call("parseUnaryExpressionPart", <<p, {"-", "@"}>>)
    [] p.token.value = "-" -> Call("parseUnaryExpressionPart", <<p, {"@"}>>)
    [] OTHER -> Call("parseUnaryExpressionPart", <<p, {}>>)

parseSubExpression(p, minPrecedence) ==
  LET p1 == IF isUnary(p.token) THEN Call("parseUnaryExpression", <<p>>) ELSE Ret(p, Null)
  IN IF p1.st # "ok" THEN p1 ELSE
  LET p2 == IF p1.ret = Null THEN Call("parsePrimaryExpression", <<p1>>) ELSE p1
  IN IF p2.st # "ok" THEN p2 ELSE
  LET p3 == IF p2.ret = Null THEN Call("parseRighthandExpression", <<p2>>) ELSE p2
  IN IF p3.st # "ok" THEN p3 ELSE Call("parseBinaryExpression", <<p3, p3.ret, minPrecedence>>)

parseNativeImportCodeStatement(p) ==
  LET start == getStart(p.previousToken)
      p1 == Call("consume", <<p, "Punctuator", "(">>)
  IN IF p1.st # "ok" THEN p1 ELSE
  IF ~p1.flag
  THEN Call("Parser_raise", <<p1, "Expected import call to have opening operator", p1.token>>)
  ELSE IF p1.token.type # "StringLiteral"
  THEN Call("Parser_raise", <<p1, "Unexpected import path", p1.token>>)
  ELSE
  LET gameDirectory == p1.token.value
      p2 == Call("Parser_next", <<p1>>)
  IN IF p2.st # "ok" THEN p2 ELSE
  LET p3 == Call("consume", <<p2, "SliceOperator", ":">>) IN IF p3.st # "ok" THEN p3 ELSE
  IF p3.flag /\ ~isType(p3, "StringLiteral")
  THEN Call("Parser_raise", <<p3, "Unexpected import path", p3.token>>)
  ELSE
  LET fileSystemDirectory == IF p3.flag THEN [value |-> p3.token.value]
                             ELSE Null
      p4 == IF p3.flag THEN Call("Parser_next", <<p3>>) ELSE p3
  IN IF p4.st # "ok" THEN p4 ELSE
  LET p5 == Call("consume", <<p4, "Punctuator", ")">>) IN IF p5.st # "ok" THEN p5 ELSE
  IF ~p5.flag
  THEN Call("Parser_raise", <<p5, "Expected import call to have closing operator", p5.token>>)
  ELSE
  LET base == [type |-> "ImportCodeExpression",
               gameDirectory |-> gameDirectory,
               fileSystemDirectory |-> fileSystemDirectory,
               start |-> start, end |-> getEnd(p5.token),
               scope |-> p5.currentScope]
  IN Ret([p5 EXCEPT !.nativeImports = Append(@, base)], base)

parseExpression(p) == Call("parseSubExpression", <<p, 0>>)

parseExpectedExpression(p) ==
  LET p1 == Call("parseExpression", <<p>>)
  IN IF p1.st # "ok" THEN p1
     ELSE IF p1.ret = Null
     THEN Call("Parser_raise", <<p1, "Unexpected expression", p1.token>>)
     ELSE p1

parseWhileStatement(p) ==
  LET start == getStart(p.previousToken)
      p1 == Call("parseExpectedExpression", <<p>>)
  IN IF p1.st # "ok" THEN p1 ELSE
  LET condition == p1.ret
      p2 == IF p1.token.type = "EOL" THEN Call("parseBlock", <<p1, {"end while"}>>)
            ELSE Call("parseBlockShortcut", <<p1>>)
  IN IF p2.st # "ok" THEN p2 ELSE
  LET body == p2.ret
      p3 == IF p1.token.type = "EOL" THEN Call("consume", <<p2, "Keyword", "end while">>)
            ELSE p2
  IN IF p3.st # "ok" THEN p3 ELSE
  IF p1.token.type = "EOL" /\ ~p3.flag
  THEN Call("Parser_raise", <<p3, "Expected 'end while' for while statement", p3.token>>)
  ELSE Ret(p3, [type |-> "WhileStatement", condition |-> condition,
                body |-> body, start |-> start,
                end |-> getEnd(p3.previousToken), scope |-> p3.currentScope])

\* Map.prototype.set on parser.lines
setLine(p, statement) ==
  [p EXCEPT !.lines = (statement.start.line :> statement) @@ p.lines]

\* the creation of an if-statement object, its end still null; ret is its
\* index in parser.ifEnd
newIfStatement(p) ==
  Ret([p EXCEPT !.ifEnd = Append(p.ifEnd, NullPosition)], Len(p.ifEnd) + 1)

\* the while (consume 'else if') loop of parseIfShortcutStatement; ret is
\* how it ended and the clauses
parseIfShortcutElseIfLoop(p, clauses) ==
  LET p1 == Call("consume", <<p, "Keyword", "else if">>) IN IF p1.st # "ok" THEN p1 ELSE
  IF ~p1.flag THEN Ret(p1, [how |-> "break", clauses |-> clauses]) ELSE
  LET statementStart == getStart(p1.token)
      p2 == Call("parseExpectedExpression", <<p1>>)
  IN IF p2.st # "ok" THEN p2 ELSE
  LET condition == p2.ret
      p3 == Call("consume", <<p2, "Keyword", "then">>)
  IN IF p3.st # "ok" THEN p3 ELSE
  IF ~p3.flag
  THEN LET r == Call("Parser_raise", <<p3, "Else if requires 'then' keyword", p3.token>>)
       IN IF r.st # "ok" THEN r ELSE Ret(r, [how |-> "return", node |-> r.ret])
  ELSE
  LET p4 == Call("parseBlockShortcut", <<p3>>) IN IF p4.st # "ok" THEN p4 ELSE
  LET clause == [type |-> "ElseifShortcutClause", condition |-> condition,
                 body |-> p4.ret, start |-> statementStart,
                 end |-> getEnd(p4.token), scope |-> p4.currentScope]
      p5 == Call("consume", <<p4, "EOL", ";">>)
  IN IF p5.st # "ok" THEN p5
     ELSE Call("parseIfShortcutElseIfLoop", <<p5, Append(clauses, clause)>>)

parseIfShortcutStatement(p, condition, start) ==
  LET p0 == newIfStatement(p)
      ifStatement == p0.ret
      p1 == Call("parseBlockShortcut", <<p0>>)
  IN IF p1.st # "ok" THEN p1 ELSE
  LET clause == [type |-> "IfShortcutClause", condition |-> condition,
                 body |-> p1.ret, start |-> start, end |-> getEnd(p1.token),
                 scope |-> p1.currentScope]
      p2 == Call("consume", <<p1, "EOL", ";">>)
  IN IF p2.st # "ok" THEN p2 ELSE
  LET p3 == Call("parseIfShortcutElseIfLoop", <<p2, <<clause>>>>) IN IF p3.st # "ok" THEN p3 ELSE
  IF p3.ret.how = "return" THEN Ret(p3, p3.ret.node) ELSE
  LET clauses == p3.ret.clauses
      p4 == Call("consume", <<p3, "Keyword", "else">>)
  IN IF p4.st # "ok" THEN p4 ELSE
  LET statementStart == getStart(p4.token)
      p5 == IF p4.flag THEN Call("parseBlockShortcut", <<p4>>) ELSE p4
  IN IF p5.st # "ok" THEN p5 ELSE
  LET elseClause == [type |-> "ElseShortcutClause", body |-> p5.ret,
                     start |-> statementStart, end |-> getEnd(p5.token),
                     scope |-> p5.currentScope]
      clauses2 == IF p4.flag THEN Append(clauses, elseClause) ELSE clauses
      p6 == IF p4.flag THEN Call("consume", <<p5, "EOL", ";">>) ELSE p5
  IN IF p6.st # "ok" THEN p6 ELSE
  LET p7 == Call("consume", <<p6, "EOL", ";">>) IN IF p7.st # "ok" THEN p7 ELSE
  LET currentEnd == getEnd(p7.previousToken)
      p8 == Call("consume", <<p7, "Keyword", "end if">>)
  IN IF p8.st # "ok" THEN p8 ELSE
  LET p9 == IF p8.flag
            THEN [p8 EXCEPT !.endIfOnShortcutStack =
                    Append(@, [statement |-> ifStatement,
                               token |-> p8.previousToken,
                               previousEnd |-> currentEnd])]
            ELSE p8
  IN Ret([p9 EXCEPT !.ifEnd[ifStatement] = currentEnd],
         [type |-> "IfShortcutStatement", id |-> ifStatement,
          clauses |-> clauses2, start |-> start, scope |-> p.currentScope])

\* the while (consume 'else if') loop of parseIfStatement
parseIfElseIfLoop(p, clauses) ==
  LET p1 == Call("consume", <<p, "Keyword", "else if">>) IN IF p1.st # "ok" THEN p1 ELSE
  IF ~p1.flag THEN Ret(p1, [how |-> "break", clauses |-> clauses]) ELSE
  LET statementStart == getStart(p1.token)
      p2 == Call("parseExpectedExpression", <<p1>>)
  IN IF p2.st # "ok" THEN p2 ELSE
  LET condition == p2.ret
      p3 == Call("consume", <<p2, "Keyword", "then">>)
  IN IF p3.st # "ok" THEN p3 ELSE
  IF ~p3.flag
  THEN LET r == Call("Parser_raise", <<p3, "Else if requires 'then' keyword", p3.token>>)
       IN IF r.st # "ok" THEN r ELSE Ret(r, [how |-> "return", node |-> r.ret])
  ELSE
  LET p4 == Call("parseBlock", <<p3, {"else", "end if"}>>) IN IF p4.st # "ok" THEN p4 ELSE
  LET clause == [type |-> "ElseifClause", condition |-> condition,
                 body |-> p4.ret, start |-> statementStart,
                 end |-> getEnd(p4.token), scope |-> p4.currentScope]
  IN Call("parseIfElseIfLoop", <<p4, Append(clauses, clause)>>)

parseIfStatement(p) ==
  LET start == getStart(p.previousToken)
      p0 == newIfStatement(p)
      ifStatement == p0.ret
      p1 == Call("parseExpectedExpression", <<p0>>)
  IN IF p1.st # "ok" THEN p1 ELSE
  LET condition == p1.ret
      p2 == Call("consume", <<p1, "Keyword", "then">>)
  IN IF p2.st # "ok" THEN p2 ELSE
  IF ~p2.flag THEN Call("Parser_raise", <<p2, "If requires 'then' keyword", p2.token>>) ELSE
  IF p2.token.type # "EOL" THEN Call("parseIfShortcutStatement", <<p2, condition, start>>)
  ELSE
  LET p3 == Call("parseBlock", <<p2, {"else", "end if"}>>) IN IF p3.st # "ok" THEN p3 ELSE
  LET clause == [type |-> "IfClause", condition |-> condition, body |-> p3.ret,
                 start |-> start, end |-> getEnd(p3.token),
                 scope |-> p3.currentScope]
      p4 == Call("parseIfElseIfLoop", <<p3, <<clause>>>>)
  IN IF p4.st # "ok" THEN p4 ELSE
  IF p4.ret.how = "return" THEN Ret(p4, p4.ret.node) ELSE
  LET clauses == p4.ret.clauses
      p5 == Call("consume", <<p4, "Keyword", "else">>)
  IN IF p5.st # "ok" THEN p5 ELSE
  LET statementStart == getStart(p5.token)
      p6 == IF p5.flag THEN Call("parseBlock", <<p5, {"else", "end if"}>>) ELSE p5
  IN IF p6.st # "ok" THEN p6 ELSE
  LET elseClause == [type |-> "ElseClause", body |-> p6.ret,
                     start |-> statementStart, end |-> getEnd(p6.token),
                     scope |-> p6.currentScope]
      clauses2 == IF p5.flag THEN Append(clauses, elseClause) ELSE clauses
      node == [type |-> "IfStatement", id |-> ifStatement,
               clauses |-> clauses2, start |-> start,
               scope |-> p.currentScope]
      p7 == Call("consume", <<p6, "Keyword", "end if">>)
  IN IF p7.st # "ok" THEN p7 ELSE
  IF p7.flag
  THEN Ret([p7 EXCEPT !.ifEnd[ifStatement] = getEnd(p7.previousToken)], node)
  ELSE IF p7.endIfOnShortcutStack = <<>>
  THEN Call("Parser_raise", <<p7, "Unexpected end of if statement", p7.token>>)
  ELSE
  LET n == Len(p7.endIfOnShortcutStack)
      item == p7.endIfOnShortcutStack[n]
      p8 == [p7 EXCEPT !.endIfOnShortcutStack = SubSeq(@, 1, n - 1)]
      p9 == [p8 EXCEPT !.ifEnd[ifStatement] = p8.ifEnd[item.statement]]
      p10 == [p9 EXCEPT !.ifEnd[item.statement] = item.previousEnd]
  IN Ret(p10, node)

parseReturnStatement(p) ==
  LET start == getStart(p.previousToken)
      p1 == Call("parseExpression", <<p>>)
  IN IF p1.st # "ok" THEN p1
     ELSE Ret(p1, [type |-> "ReturnStatement", argument |-> p1.ret,
                   start |-> start, end |-> getEnd(p1.token),
                   scope |-> p1.currentScope])

parseAssignmentOrCallStatement(p) ==
  LET start == getStart(p.token)
      origin == p.token
      p1 == IF origin.type = "Identifier"
            THEN LET q == Call("parseIdentifier", <<p>>)
                 IN IF q.st # "ok" THEN q
                    ELSE Call("parseRighthandExpressionGreedy", <<q, q.ret>>)
            ELSE Call("parseExpectedExpression", <<p>>)
  IN IF p1.st # "ok" THEN p1 ELSE
  LET base == p1.ret IN
  IF p1.token.type \in {"Punctuator", "Keyword"}
     /\ isExpressionOperator(p1.token.value)
  THEN Call("parseBinaryExpression", <<p1, base, 0>>)
  ELSE IF isLiteral(origin.type) THEN Ret(p1, base)
  ELSE
  LET p2 == Call("consume", <<p1, "Punctuator", "=">>) IN IF p2.st # "ok" THEN p2 ELSE
  IF p2.flag
  THEN
    LET p3 == Call("parseExpectedExpression", <<p2>>) IN IF p3.st # "ok" THEN p3 ELSE
    LET assignmentStatement ==
          [type |-> "AssignmentStatement", variable |-> base,
           init |-> p3.ret, start |-> start, end |-> getEnd(p3.token),
           scope |-> p3.currentScope]
    IN Ret([p3 EXCEPT !.scopeTab[p3.currentScope].assignments =
                         Append(@, assignmentStatement)],
           assignmentStatement)
  ELSE IF p2.token.type \in {"EOL", "EOF", "Keyword"}
  THEN Ret(p2, [type |-> "CallStatement", expression |-> base,
                start |-> start, end |-> getEnd(p2.previousToken),
                scope |-> p2.currentScope])
  ELSE Call("Parser_raise", <<p2, "Unexpected assignment or call", p2.token>>)

parseForStatement(p) ==
  LET start == getStart(p.previousToken)
      p1 == Call("consume", <<p, "Punctuator", "(">>)
  IN IF p1.st # "ok" THEN p1 ELSE
  LET p2 == Call("parseIdentifier", <<p1>>) IN IF p2.st # "ok" THEN p2 ELSE
  LET variable == p2.ret
      p3 == Call("consume", <<p2, "Keyword", "in">>)
  IN IF p3.st # "ok" THEN p3 ELSE
  IF ~p3.flag
  THEN Call("Parser_raise", <<p3, "Missing in keyword in for statement", p3.token>>)
  ELSE
  LET p4 == Call("parseExpectedExpression", <<p3>>) IN IF p4.st # "ok" THEN p4 ELSE
  LET iterator == p4.ret
      p5 == Call("consume", <<p4, "Punctuator", ")">>)
  IN IF p5.st # "ok" THEN p5 ELSE
  LET p6 == IF p5.token.type = "EOL" THEN Call("parseBlock", <<p5, {"end for"}>>)
            ELSE Call("parseBlockShortcut", <<p5>>)
  IN IF p6.st # "ok" THEN p6 ELSE
  LET body == p6.ret
      p7 == IF p5.token.type = "EOL" THEN Call("consume", <<p6, "Keyword", "end for">>)
            ELSE p6
  IN IF p7.st # "ok" THEN p7 ELSE
  IF p5.token.type = "EOL" /\ ~p7.flag
  THEN Call("Parser_raise", <<p7, "Expected 'end for' in for statement", p7.token>>)
  ELSE Ret(p7, [type |-> "ForGenericStatement", variable |-> variable,
                iterator |-> iterator, body |-> body, start |-> start,
                end |-> getEnd(p7.previousToken), scope |-> p7.currentScope])

\* the creation of a scope object (the chunk or a function statement), its
\* end still null; ret is its index in parser.scopeTab
newScope(p, type, start) ==
  Ret([p EXCEPT !.scopeTab = Append(p.scopeTab,
         [type |-> type, namespaces |-> {}, assignments |-> <<>>,
          start |-> start, end |-> NullPosition])],
      Len(p.scopeTab) + 1)

\* the while (true) loop over the parameters; ret is how it ended and the
\* parameters
parseFunctionParameters(p, parameters) ==
  IF p.token.type # "Identifier"
  THEN LET r == Call("Parser_raise", <<p, "Unexpected parameter in function declaration",
                             p.token>>)
       IN IF r.st # "ok" THEN r ELSE Ret(r, [how |-> "return", node |-> r.ret])
  ELSE
  LET p1 == Call("parseIdentifier", <<p>>) IN IF p1.st # "ok" THEN p1 ELSE
  LET paramterStart == p1.ret.start
      p2 == Call("consume", <<p1, "Punctuator", "=">>)
  IN IF p2.st # "ok" THEN p2 ELSE
  LET p3 == IF p2.flag THEN Call("parseExpectedExpression", <<p2>>) ELSE p2
  IN IF p3.st # "ok" THEN p3 ELSE
  LET assignment == [type |-> "AssignmentStatement", variable |-> p1.ret,
                     init |-> p3.ret, start |-> paramterStart,
                     end |-> getEnd(p3.token), scope |-> p3.currentScope]
      parameter == IF p2.flag THEN assignment ELSE p1.ret
      p4 == IF p2.flag
            THEN [p3 EXCEPT !.scopeTab[p3.currentScope].assignments =
                               Append(@, assignment)]
            ELSE p3
      p5 == Call("consume", <<p4, "Punctuator", ",">>)
  IN IF p5.st # "ok" THEN p5 ELSE
  IF p5.flag THEN Call("parseFunctionParameters", <<p5, Append(parameters, parameter)>>)
  ELSE
  LET p6 == Call("consume", <<p5, "Punctuator", ")">>) IN IF p6.st # "ok" THEN p6 ELSE
  IF ~p6.flag
  THEN LET r == Call("Parser_raise", <<p6,
                  "Missing right parenthesis in function declaration", p6.token>>)
       IN IF r.st # "ok" THEN r ELSE Ret(r, [how |-> "return", node |-> r.ret])
  ELSE Ret(p6, [how |-> "break", parameters |-> Append(parameters, parameter)])

\* a variant of parseFunctionDeclaration that pushes the scope of the
\* function after its parameters have been parsed
parseFunctionDeclarationPushingAfterParameters(p) ==
  LET start == getStart(p.previousToken)
      p0 == newScope(p, "FunctionDeclaration", start)
      functionStatement == p0.ret
      p2 == Call("consume", <<p0, "Punctuator", "(">>)
  IN IF p2.st # "ok" THEN p2 ELSE
  IF ~p2.flag
  THEN Call("Parser_raise", <<p2, "Missing left parenthesis in function declaration",
                    p2.token>>)
  ELSE
  LET p3 == Call("consume", <<p2, "Punctuator", ")">>) IN IF p3.st # "ok" THEN p3 ELSE
  LET p4a == IF ~p3.flag THEN Call("parseFunctionParameters", <<p3, <<>>>>)
             ELSE Ret(p3, [how |-> "break", parameters |-> <<>>])
  IN IF p4a.st # "ok" THEN p4a ELSE
  IF p4a.ret.how = "return" THEN Ret(p4a, p4a.ret.node) ELSE
  LET parameters == p4a.ret.parameters
      p4 == pushScope(p4a, functionStatement)
      p5 == IF p4.token.type = "EOL" THEN Call("parseBlock", <<p4, {"end function"}>>)
            ELSE Call("parseBlockShortcut", <<p4>>)
  IN IF p5.st # "ok" THEN p5 ELSE
  LET body == p5.ret
      p6 == IF p4.token.type = "EOL" THEN Call("consume", <<p5, "Keyword", "end function">>)
            ELSE p5
  IN IF p6.st # "ok" THEN p6 ELSE
  IF p4.token.type = "EOL" /\ ~p6.flag
  THEN Call("Parser_raise", <<p6, "Expected 'end function' in function declaration",
                    p6.token>>)
  ELSE
  LET p7 == popScope(p6)
      end == getEnd(p7.previousToken)
  IN Ret([p7 EXCEPT !.scopeTab[functionStatement].end = end],
         [type |-> "FunctionDeclaration", id |-> functionStatement,
          parameters |-> parameters, body |-> body, start |-> start,
          end |-> end, scope |-> p.currentScope])

parseFunctionDeclaration(p) ==
  LET start == getStart(p.previousToken)
      p0 == newScope(p, "FunctionDeclaration", start)
      functionStatement == p0.ret
      p1 == pushScope(p0, functionStatement)
      p2 == Call("consume", <<p1, "Punctuator", "(">>)
  IN IF p2.st # "ok" THEN p2 ELSE
  IF ~p2.flag
  THEN Call("Parser_raise", <<p2, "Missing left parenthesis in function declaration",
                    p2.token>>)
  ELSE
  LET p3 == Call("consume", <<p2, "Punctuator", ")">>) IN IF p3.st # "ok" THEN p3 ELSE
  LET p4 == IF ~p3.flag THEN Call("parseFunctionParameters", <<p3, <<>>>>)
            ELSE Ret(p3, [how |-> "break", parameters |-> <<>>])
  IN IF p4.st # "ok" THEN p4 ELSE
  IF p4.ret.how = "return" THEN Ret(p4, p4.ret.node) ELSE
  LET parameters == p4.ret.parameters
      p5 == IF p4.token.type = "EOL" THEN Call("parseBlock", <<p4, {"end function"}>>)
            ELSE Call("parseBlockShortcut", <<p4>>)
  IN IF p5.st # "ok" THEN p5 ELSE
  LET body == p5.ret
      p6 == IF p4.token.type = "EOL" THEN Call("consume", <<p5, "Keyword", "end function">>)
            ELSE p5
  IN IF p6.st # "ok" THEN p6 ELSE
  IF p4.token.type = "EOL" /\ ~p6.flag
  THEN Call("Parser_raise", <<p6, "Expected 'end function' in function declaration",
                    p6.token>>)
  ELSE
  LET p7 == popScope(p6)
      end == getEnd(p7.previousToken)
  IN Ret([p7 EXCEPT !.scopeTab[functionStatement].end = end],
         [type |-> "FunctionDeclaration", id |-> functionStatement,
          parameters |-> parameters, body |-> body, start |-> start,
          end |-> end, scope |-> p.currentScope])

SimpleStatement(p, type) ==
  Ret(p, [type |-> type, start |-> getStart(p.previousToken),
          end |-> getEnd(p.previousToken), scope |-> p.currentScope])

parseStatement(p) ==
  IF p.token.type = "Keyword"
     /\ p.token.value \in {"if", "return", "function", "while", "for",
                           "continue", "break", "import_code"}
  THEN
    LET value == p.token.value
        p1 == Call("Parser_next", <<p>>)
    IN IF p1.st # "ok" THEN p1 ELSE
    CASE value = "if" -> Call("parseIfStatement", <<p1>>)
      [] value = "return" -> Call("parseReturnStatement", <<p1>>)
      [] value = "function" -> Call("parseFunctionDeclaration", <<p1>>)
      [] value = "while" -> Call("parseWhileStatement", <<p1>>)
      [] value = "for" -> Call("parseForStatement", <<p1>>)
      [] value = "continue" -> SimpleStatement(p1, "ContinueStatement")
      [] value = "break" -> SimpleStatement(p1, "BreakStatement")
      [] value = "import_code" -> Call("parseNativeImportCodeStatement", <<p1>>)
  ELSE IF p.token.type = "EOL" THEN Call("Parser_next", <<p>>)
  ELSE Call("parseAssignmentOrCallStatement", <<p>>)

parseBlockShortcutLoop(p, statements) ==
  IF p.token.type # "EOL" /\ ~isBreakingBlockShortcutKeyword(p.token.value)
  THEN LET p1 == Call("parseStatement", <<p>>) IN IF p1.st # "ok" THEN p1 ELSE
       LET statement == p1.ret
           p2 == IF statement # Null THEN setLine(p1, statement) ELSE p1
       IN Call("parseBlockShortcutLoop", <<Stall(p, p2),
            IF statement # Null THEN Append(statements, statement) ELSE statements>>)
  ELSE Ret(p, statements)

parseBlockShortcut(p) == Call("parseBlockShortcutLoop", <<p, <<>>>>)

\* one iteration of the loop of parseBlock; ret is the block afterwards
parseBlockIteration(p, statements) ==
  LET p1 == Call("parseStatement", <<p>>) IN IF p1.st # "ok" THEN p1 ELSE
  LET statement == p1.ret
      p2 == Call("consume", <<p1, "EOL", ";">>)
  IN IF p2.st # "ok" THEN p2 ELSE
  LET p3 == IF statement # Null THEN setLine(p2, statement) ELSE p2
  IN Ret(Stall(p, p3),
         IF statement # Null THEN Append(statements, statement) ELSE statements)

parseBlockLoop(p, endBlocks, statements) ==
  IF ~isBlockEnd(p, p.token, endBlocks)
  THEN LET p1 == Call("parseBlockIteration", <<p, statements>>)
       IN IF p1.st # "ok" THEN p1 ELSE Call("parseBlockLoop", <<p1, endBlocks, p1.ret>>)
  ELSE Ret(p, statements)

parseBlock(p, endBlocks) == Call("parseBlockLoop", <<p, endBlocks, <<>>>>)

\* parseChunk up to the call of parseBlock
parseChunkBegin(p) ==
  LET p1 == Call("Parser_next", <<p>>) IN IF p1.st # "ok" THEN p1 ELSE
  LET p2 == newScope(p1, "Chunk", getStart(p1.token))
  IN Ret(pushScope(p2, p2.ret), Null)

\* parseChunk after parseBlock returned body; ret is the chunk
parseChunkEnd(p, body) ==
  LET p1 == popScope(p)
  IN IF p1.token.type # "EOF"
     THEN Call("Parser_raise", <<p1, "Unexpected end of file", p1.token>>)
     ELSE
     LET end == getEnd(p1.token)
         p2 == [p1 EXCEPT !.scopeTab[1].end = end]
     IN Ret(p2, [type |-> "Chunk", body |-> body,
                 nativeImports |-> p2.nativeImports,
                 literals |-> p2.literals, scopes |-> p2.scopes,
                 lines |-> p2.lines, start |-> p2.scopeTab[1].start,
                 end |-> end, namespaces |-> p2.scopeTab[1].namespaces,
                 assignments |-> p2.scopeTab[1].assignments,
                 scopeTab |-> p2.scopeTab, ifEnd |-> p2.ifEnd])

parseChunk(p) ==
  LET p1 == Call("parseChunkBegin", <<p>>) IN IF p1.st # "ok" THEN p1 ELSE
  LET p2 == Call("parseBlock", <<p1, {}>>) IN IF p2.st # "ok" THEN p2 ELSE
  Call("parseChunkEnd", <<p2, p2.ret>>)

(***************************************************************************)
(* The methods of the two classes call one another in cycles (next, raise  *)
(* and skipToNextLine; parseStatement, parseBlock and the expression       *)
(* methods).  A call of a method is written Call(name, arguments), and the *)
(* one recursive operator Call closes every cycle.                         *)
(***************************************************************************)
Call(op, a) ==
  CASE op = "skipWhiteSpace" ->
         skipWhiteSpace(a[1])
    [] op = "scanComment" ->
         scanComment(a[1])
    [] op = "skipComments" ->
         skipComments(a[1])
    [] op = "scanIdentifierPart" ->
         scanIdentifierPart(a[1])
    [] op = "scanDecDigits" ->
         scanDecDigits(a[1])
    [] op = "scanStringLoop" ->
         scanStringLoop(a[1])
    [] op = "readDecLiteral" ->
         readDecLiteral(a[1])
    [] op = "scanNumericLiteral" ->
         scanNumericLiteral(a[1])
    [] op = "scanPunctuator" ->
         scanPunctuator(a[1], a[2])
    [] op = "scanSliceOperator" ->
         scanSliceOperator(a[1])
    [] op = "scanIdentifierOrKeyword" ->
         scanIdentifierOrKeyword(a[1])
    [] op = "skipToNextLineLoop" ->
         skipToNextLineLoop(a[1], a[2])
    [] op = "skipToNextLine" ->
         skipToNextLine(a[1], a[2])
    [] op = "Lexer_raise" ->
         Lexer_raise(a[1], a[2], a[3])
    [] op = "scanStringLiteral" ->
         scanStringLiteral(a[1], a[2])
    [] op = "scan" ->
         scan(a[1], a[2], a[3], a[4], a[5])
    [] op = "Lexer_next" ->
         Lexer_next(a[1], a[2])
    [] op = "prefetchLoop" ->
         prefetchLoop(a[1], a[2])
    [] op = "prefetch" ->
         prefetch(a[1], a[2])
    [] op = "fetch" ->
         fetch(a[1])
    [] op = "Parser_next" ->
         Parser_next(a[1])
    [] op = "consume" ->
         consume(a[1], a[2], a[3])
    [] op = "skipNewlines" ->
         skipNewlines(a[1])
    [] op = "raiseSkip" ->
         raiseSkip(a[1], a[2])
    [] op = "Parser_raise" ->
         Parser_raise(a[1], a[2], a[3])
    [] op = "parseIdentifier" ->
         parseIdentifier(a[1])
    [] op = "parseMapLoop" ->
         parseMapLoop(a[1], a[2], a[3])
    [] op = "parseMapConstructor" ->
         parseMapConstructor(a[1])
    [] op = "parseListLoop" ->
         parseListLoop(a[1], a[2], a[3])
    [] op = "parseListConstructor" ->
         parseListConstructor(a[1])
    [] op = "parseRighthandExpressionGreedy" ->
         parseRighthandExpressionGreedy(a[1], a[2])
    [] op = "parseRighthandExpression" ->
         parseRighthandExpression(a[1])
    [] op = "parseAssignmentShorthandOperator" ->
         parseAssignmentShorthandOperator(a[1], a[2])
    [] op = "parseIndexExpression" ->
         parseIndexExpression(a[1], a[2])
    [] op = "parseRighthandExpressionPart" ->
         parseRighthandExpressionPart(a[1], a[2])
    [] op = "parseCallLoop" ->
         parseCallLoop(a[1], a[2], a[3])
    [] op = "parseCallExpression" ->
         parseCallExpression(a[1], a[2])
    [] op = "parseFloatExpression" ->
         parseFloatExpression(a[1], a[2])
    [] op = "parsePrimaryExpression" ->
         parsePrimaryExpression(a[1])
    [] op = "parseBinaryLoop" ->
         parseBinaryLoop(a[1], a[2], a[3], a[4])
    [] op = "parseBinaryExpression" ->
         parseBinaryExpression(a[1], a[2], a[3])
    [] op = "parseUnaryExpressionPart" ->
         parseUnaryExpressionPart(a[1], a[2])
    [] op = "parseUnaryExpression" ->
         parseUnaryExpression(a[1])
    [] op = "parseSubExpression" ->
         parseSubExpression(a[1], a[2])
    [] op = "parseNativeImportCodeStatement" ->
         parseNativeImportCodeStatement(a[1])
    [] op = "parseExpression" ->
         parseExpression(a[1])
    [] op = "parseExpectedExpression" ->
         parseExpectedExpression(a[1])
    [] op = "parseWhileStatement" ->
         parseWhileStatement(a[1])
    [] op = "parseIfShortcutElseIfLoop" ->
         parseIfShortcutElseIfLoop(a[1], a[2])
    [] op = "parseIfShortcutStatement" ->
         parseIfShortcutStatement(a[1], a[2], a[3])
    [] op = "parseIfElseIfLoop" ->
         parseIfElseIfLoop(a[1], a[2])
    [] op = "parseIfStatement" ->
         parseIfStatement(a[1])
    [] op = "parseReturnStatement" ->
         parseReturnStatement(a[1])
    [] op = "parseAssignmentOrCallStatement" ->
         parseAssignmentOrCallStatement(a[1])
    [] op = "parseForStatement" ->
         parseForStatement(a[1])
    [] op = "parseFunctionParameters" ->
         parseFunctionParameters(a[1], a[2])
    [] op = "parseFunctionDeclaration" ->
         parseFunctionDeclaration(a[1])
    [] op = "parseStatement" ->
         parseStatement(a[1])
    [] op = "parseBlockShortcutLoop" ->
         parseBlockShortcutLoop(a[1], a[2])
    [] op = "parseBlockShortcut" ->
         parseBlockShortcut(a[1])
    [] op = "parseBlockIteration" ->
         parseBlockIteration(a[1], a[2])
    [] op = "parseBlockLoop" ->
         parseBlockLoop(a[1], a[2], a[3])
    [] op = "parseBlock" ->
         parseBlock(a[1], a[2])
    [] op = "parseChunkBegin" ->
         parseChunkBegin(a[1])
    [] op = "parseChunkEnd" ->
         parseChunkEnd(a[1], a[2])
    [] op = "parseChunk" ->
         parseChunk(a[1])

(***************************************************************************)
(* Source texts.  A generated source is up to MaxLines of the lines below,  *)
(* joined by new-line characters; the others are whole programs.            *)
(***************************************************************************)
\* a well-formed assignment: x = 1
LineAssignment ==
  <<"x"," ","="," ","1">>

\* malformed: the error is detected at y, inside the line: x y
LineUnexpectedToken ==
  <<"x"," ","y">>

\* malformed: the error is detected at the end-of-line token: x =
LineMissingValue ==
  <<"x"," ","=">>

\* a shortcut if-statement: if a then b
LineShortcutIf ==
  <<"i","f"," ","a"," ","t","h","e","n"," ","b">>

\* the opening line of a block if-statement: if c then
LineIfThen ==
  <<"i","f"," ","c"," ","t","h","e","n">>

\* the closing line of a block if-statement: end if
LineEndIf ==
  <<"e","n","d"," ","i","f">>

\* a character that starts no token: x = #
LineInvalidCharacter ==
  <<"x"," ","="," ","#">>

\* a string literal that is not closed: x = "a
LineOpenString ==
  <<"x"," ","="," ","\"","a">>

\* a map constructor whose value is missing: x = {"a":}
LineMapMissingValue ==
  <<"x"," ","="," ","{","\"","a","\"",":","}">>

\* a shortcut if with an else branch on one line, then a block if closed by end if:
\*   if a then b else c\nif d then\n e\nend if
SrcShortcutThenBlockIf ==
  <<"i","f"," ","a"," ","t","h","e","n"," ","b"," ","e","l","s","e"," ","c",
    "\n","i","f"," ","d"," ","t","h","e","n","\n"," ","e","\n","e","n","d",
    " ","i","f">>

\* a shortcut if that took an end if, and later a block if that the end of file closes:
\*   if a then b\nend if\ny = 1\nif c then\n d
SrcStaleEndIf ==
  <<"i","f"," ","a"," ","t","h","e","n"," ","b","\n","e","n","d"," ","i",
    "f","\n","y"," ","="," ","1","\n","i","f"," ","c"," ","t","h","e","n",
    "\n"," ","d">>

\* a function declaration with a name after the keyword:
\*   function f(a)\n b = a + 1\nend function
SrcNamedFunction ==
  <<"f","u","n","c","t","i","o","n"," ","f","(","a",")","\n"," ","b"," ",
    "="," ","a"," ","+"," ","1","\n","e","n","d"," ","f","u","n","c","t",
    "i","o","n">>

\* a function value assigned to f:
\*   f = function(a)\n b = a + 1\nend function
SrcAssignedFunction ==
  <<"f"," ","="," ","f","u","n","c","t","i","o","n","(","a",")","\n"," ",
    "b"," ","="," ","a"," ","+"," ","1","\n","e","n","d"," ","f","u","n",
    "c","t","i","o","n">>

\* three malformed lines (error inside the line) separated by valid lines:
\*   x y\nv = 1\nx y\nv = 1\nx y
SrcThreeErrorsInside ==
  <<"x"," ","y","\n","v"," ","="," ","1","\n","x"," ","y","\n","v"," ","=",
    " ","1","\n","x"," ","y">>

\* three malformed lines (error at the end of the line) separated by valid lines:
\*   x =\nv = 1\nx =\nv = 1\nx =
SrcThreeErrorsAtEol ==
  <<"x"," ","=","\n","v"," ","="," ","1","\n","x"," ","=","\n","v"," ","=",
    " ","1","\n","x"," ","=">>

\* loops, calls, index and slice, unary and binary operators:
\*   while a\n b\nend while\nfor i in x\n c(1,2).d[1:2]\nend for\nreturn not -a + @b ^ 2 * new c
SrcLoops ==
  <<"w","h","i","l","e"," ","a","\n"," ","b","\n","e","n","d"," ","w","h",
    "i","l","e","\n","f","o","r"," ","i"," ","i","n"," ","x","\n"," ","c",
    "(","1",",","2",")",".","d","[","1",":","2","]","\n","e","n","d"," ",
    "f","o","r","\n","r","e","t","u","r","n"," ","n","o","t"," ","-","a",
    " ","+"," ","@","b"," ","^"," ","2"," ","*"," ","n","e","w"," ","c">>

\* literals, map and list constructors, an import and an if with all clauses:
\*   m = {"k": 1}\nl = [true, null]\nimport_code("/a":"/b")\nif a then\n break\nelse if b then\n continue\nelse\n x += 1\nend if // c
SrcLiterals ==
  <<"m"," ","="," ","{","\"","k","\"",":"," ","1","}","\n","l"," ","="," ",
    "[","t","r","u","e",","," ","n","u","l","l","]","\n","i","m","p","o",
    "r","t","_","c","o","d","e","(","\"","/","a","\"",":","\"","/","b","\"",
    ")","\n","i","f"," ","a"," ","t","h","e","n","\n"," ","b","r","e","a",
    "k","\n","e","l","s","e"," ","i","f"," ","b"," ","t","h","e","n","\n",
    " ","c","o","n","t","i","n","u","e","\n","e","l","s","e","\n"," ","x",
    " ","+","="," ","1","\n","e","n","d"," ","i","f"," ","/","/"," ","c">>

\* a name on one line and a parenthesised value on the next:
\*   x\n(1)
SrcCallAcrossLines ==
  <<"x","\n","(","1",")">>

\* a whole number:
\*   x = 5
SrcNumberInteger ==
  <<"x"," ","="," ","5">>

\* a number with a fraction:
\*   x = 5.0
SrcNumberFraction ==
  <<"x"," ","="," ","5",".","0">>

\* a number that begins with its decimal point:
\*   x = .5
SrcNumberLeadingDot ==
  <<"x"," ","="," ",".","5">>

\* a number that ends with its decimal point:
\*   x = 5.
SrcNumberTrailingDot ==
  <<"x"," ","="," ","5",".">>

\* a block if whose end if is taken by the shortcut if inside it:
\*   if a then\n if b then c\nend if
SrcBlockIfBorrowsEndIf ==
  <<"i","f"," ","a"," ","t","h","e","n","\n"," ","i","f"," ","b"," ","t",
    "h","e","n"," ","c","\n","e","n","d"," ","i","f">>

\* a block if with an else branch, a shortcut if as the last statement before the else:
\*   if a then\n if b then c\nelse\n d\nend if
SrcElseAfterShortcutInBlock ==
  <<"i","f"," ","a"," ","t","h","e","n","\n"," ","i","f"," ","b"," ","t",
    "h","e","n"," ","c","\n","e","l","s","e","\n"," ","d","\n","e","n","d",
    " ","i","f">>

\* a function with a default parameter value and a function declared in its
\* body:
\*   f = function(a, b = c)\n d = a\n function(e) e\nend function
SrcFunctionDefaults ==
  <<"f"," ","="," ","f","u","n","c","t","i","o","n","(","a",","," ","b"," ",
    "="," ","c",")","\n"," ","d"," ","="," ","a","\n"," ","f","u","n","c",
    "t","i","o","n","(","e",")"," ","e","\n","e","n","d"," ","f","u","n",
    "c","t","i","o","n">>

\* an end keyword at the end of its line:
\*   end\nx
SrcEndBeforeNewline ==
  <<"e","n","d","\n","x">>

\* tabs before the first token of a line:
\*   \tx = 1\n \t y
SrcTabs ==
  <<"\t","x"," ","="," ","1","\n"," ","\t"," ","y">>

\* a tab inside a string literal that is followed by other tokens:
\*   x = "\t" + y
SrcTabInString ==
  <<"x"," ","="," ","\"","\t","\""," ","+"," ","y">>

\* two imports, the second with both of its paths:
\*   import_code("a")\nimport_code("b":"c")
SrcImports ==
  <<"i","m","p","o","r","t","_","c","o","d","e","(","\"","a","\"",")","\n",
    "i","m","p","o","r","t","_","c","o","d","e","(","\"","b","\"",":","\"",
    "c","\"",")">>

\* an import whose two paths are separated by a comma:
\*   import_code("a","b")
SrcImportComma ==
  <<"i","m","p","o","r","t","_","c","o","d","e","(","\"","a","\"",",","\"",
    "b","\"",")">>

\* an import whose first argument is not a string literal:
\*   import_code(a)
SrcImportNoString ==
  <<"i","m","p","o","r","t","_","c","o","d","e","(","a",")">>

\* an import whose second argument is not a string literal:
\*   import_code("a":b)
SrcImportSecondNoString ==
  <<"i","m","p","o","r","t","_","c","o","d","e","(","\"","a","\"",":","b",
    ")">>

Lines ==
  {LineAssignment,
   LineUnexpectedToken,
   LineMissingValue,
   LineShortcutIf,
   LineIfThen,
   LineEndIf,
   LineInvalidCharacter,
   LineOpenString,
   LineMapMissingValue}

Programs ==
  {SrcShortcutThenBlockIf,
   SrcStaleEndIf,
   SrcNamedFunction,
   SrcAssignedFunction,
   SrcThreeErrorsInside,
   SrcThreeErrorsAtEol,
   SrcLoops,
   SrcLiterals,
   SrcCallAcrossLines,
   SrcNumberInteger,
   SrcNumberFraction,
   SrcNumberLeadingDot,
   SrcNumberTrailingDot,
   SrcBlockIfBorrowsEndIf,
   SrcElseAfterShortcutInBlock,
   SrcFunctionDefaults,
   SrcEndBeforeNewline,
   SrcTabs,
   SrcTabInString,
   SrcImports,
   SrcImportComma,
   SrcImportNoString,
   SrcImportSecondNoString}

RECURSIVE JoinLines(_)
JoinLines(ls) ==
  IF Len(ls) = 1 THEN ls[1] ELSE ls[1] \o <<"\n">> \o JoinLines(Tail(ls))

Generated ==
  UNION {{JoinLines(ls) : ls \in [1..n -> Lines]} : n \in 1..MaxLines}

\* the binary operators of generated expressions: every level of the
\* precedence table, two operators for some levels
OperatorSample == {"^", "*", "/", "+", "-", "<<", "==", "<", "and", "or"}

OperatorText(op) ==
  CASE op = "<<" -> <<"<", "<">>
    [] op = "==" -> <<"=", "=">>
    [] op = "and" -> <<"a", "n", "d">>
    [] op = "or" -> <<"o", "r">>
    [] OTHER -> <<op>>

Operands == <<"a", "b", "c", "d", "e">>

OperatorSequences ==
  UNION {[1..n -> OperatorSample] : n \in 1..MaxOperators}

\* the text after the first operand: each operator and its right operand
RECURSIVE ExpressionTail(_, _)
ExpressionTail(ops, i) ==
  IF i > Len(ops) THEN <<>>
  ELSE <<" ">> \o OperatorText(ops[i]) \o <<" ", Operands[i + 1]>>
         \o ExpressionTail(ops, i + 1)

\* x = a op b op c ...
ExpressionSource(ops) ==
  <<"x", " ", "=", " ", Operands[1]>> \o ExpressionTail(ops, 1)

Expressions == {ExpressionSource(ops) : ops \in OperatorSequences}

\* the four shorthand assignments: x += 1, x -= 1, x *= 1, x /= 1
ShorthandOperators == {"+", "-", "*", "/"}

Shorthands == {<<"x", " ", op, "=", " ", "1">> : op \in ShorthandOperators}

\* the unary prefixes, and the assignments x = outer inner a of one prefix
\* directly followed by another
UnaryPrefixes == {<<"n", "o", "t">>, <<"-">>, <<"@">>, <<"n", "e", "w">>, <<"+">>}

StackedUnary(outer, inner) ==
  <<"x", " ", "=", " ">> \o outer \o <<" ">> \o inner \o <<" ", "a">>

StackedUnaries ==
  {StackedUnary(outer, inner) : outer \in UnaryPrefixes, inner \in UnaryPrefixes}

\* texts of a string literal, and two sources that hold one string literal:
\* x = a "text" b and if a then "text"
StringTexts == {<<"q">>, <<"+">>, <<"e", "l", "s", "e">>, <<"e", "l", "s", "a">>}

StringAfterOperand(text) ==
  <<"x", " ", "=", " ", "a", " ", "\"">> \o text \o <<"\"", " ", "b">>

StringInShortcut(text) ==
  <<"i", "f", " ", "a", " ", "t", "h", "e", "n", " ", "\"">> \o text \o <<"\"">>

StringSources ==
  {StringAfterOperand(text) : text \in StringTexts}
    \cup {StringInShortcut(text) : text \in StringTexts}

\* the sources on which next() and prefetch(offset) are called in any order
CursorSources == Lines \cup Programs

Sources ==
  Generated \cup Programs \cup Expressions \cup Shorthands \cup StackedUnaries
    \cup StringSources

(***************************************************************************)
(* The callers.  One drives a stand-alone tokenizer, calling next() until  *)
(* the end of the content; the other calls parseChunk() on a parser, whose *)
(* loop over the statements of the chunk is followed one iteration at a    *)
(* time.  A third calls next() and prefetch(offset) on a parser in any     *)
(* order, on the single lines and the programs.                            *)
(***************************************************************************)
\* options.tabWidth || 1; a width other than the default is passed with the
\* contents that hold a tab, the others being read alike with every width
DefaultTabWidth == 1

\* how a call that did not return normally left parseChunk
Outcome(st) == IF st = "hang" THEN "hang" ELSE "thrown"

Init ==
  /\ client \in {"lexer", "parser", "cursor"}
  /\ \E content \in Sources, unsafe \in BOOLEAN, tabWidth \in 1..MaxTabWidth :
       /\ IF client = "cursor" THEN content \in CursorSources ELSE TRUE
       /\ IF \E k \in DOMAIN content : content[k] = "\t" THEN TRUE
          ELSE tabWidth = DefaultTabWidth
       /\ lexer = NewLexer(content, unsafe, tabWidth)
       /\ parser = NewParser(content, unsafe, tabWidth)
  /\ tokens = <<>>
  /\ lexStatus = "ok"
  /\ pc = "new"
  /\ block = <<>>
  /\ chunk = Null

\* what a call of next() that returned r, or did not return, leaves behind
LexerNextReturns(r) ==
  /\ lexer' = r.lx
  /\ lexStatus' = r.st
  /\ tokens' = IF r.st = "ok" THEN Append(tokens, r.tok) ELSE tokens

\* lexer.next()
LexerNext ==
  /\ client = "lexer"
  /\ lexStatus = "ok"
  /\ Len(tokens) < MaxCalls
  /\ LexerNextReturns(Call("Lexer_next", <<lexer, 0>>))
  /\ UNCHANGED <<client, parser, pc, block, chunk>>

ParseChunkBeginReturns(p) ==
  /\ parser' = p
  /\ pc' = IF Ok(p) THEN "block" ELSE Outcome(p.st)

\* parser.parseChunk(), up to the loop of parseBlock
ParseChunkBegin ==
  /\ client = "parser"
  /\ pc = "new"
  /\ ParseChunkBeginReturns(Call("parseChunkBegin", <<parser>>))
  /\ UNCHANGED <<client, lexer, tokens, lexStatus, block, chunk>>

ParseBlockStepReturns(p) ==
  /\ parser' = Ret(p, Null)
  /\ block' = IF Ok(p) THEN p.ret ELSE block
  /\ pc' = IF Ok(p) THEN "block" ELSE Outcome(p.st)

\* one iteration of the loop of parseBlock in parseChunk
ParseBlockStep ==
  /\ client = "parser"
  /\ pc = "block"
  /\ ~isBlockEnd(parser, parser.token, {})
  /\ ParseBlockStepReturns(Call("parseBlockIteration", <<parser, block>>))
  /\ UNCHANGED <<client, lexer, tokens, lexStatus, chunk>>

ParseChunkEndReturns(p) ==
  /\ parser' = Ret(p, Null)
  /\ chunk' = IF Ok(p) THEN p.ret ELSE chunk
  /\ pc' = IF Ok(p) THEN "done" ELSE Outcome(p.st)

\* the loop of parseBlock is left and parseChunk returns
ParseChunkEnd ==
  /\ client = "parser"
  /\ pc = "block"
  /\ isBlockEnd(parser, parser.token, {})
  /\ ParseChunkEndReturns(Call("parseChunkEnd", <<parser, block>>))
  /\ UNCHANGED <<client, lexer, tokens, lexStatus, block>>

\* parser.next()
ParserNext ==
  /\ client = "cursor"
  /\ pc \in {"new", "next", "prefetch"}
  /\ Advances(parser) < MaxCalls
  /\ parser' = Call("Parser_next", <<parser>>)
  /\ pc' = IF Ok(parser') THEN "next" ELSE Outcome(parser'.st)
  /\ UNCHANGED <<client, lexer, tokens, lexStatus, block, chunk>>

\* parser.prefetch(offset)
ParserPrefetch ==
  /\ client = "cursor"
  /\ pc \in {"new", "next", "prefetch"}
  /\ \E offset \in 1..MaxOffset :
       parser' = Ret(Call("prefetch", <<parser, offset>>), Null)
  /\ pc' = IF Ok(parser') THEN "prefetch" ELSE Outcome(parser'.st)
  /\ UNCHANGED <<client, lexer, tokens, lexStatus, block, chunk>>

Next ==
  \/ LexerNext
  \/ ParseChunkBegin
  \/ ParseBlockStep
  \/ ParseChunkEnd
  \/ ParserNext
  \/ ParserPrefetch

Spec == Init /\ [][Next]_vars

(***************************************************************************)
(* Reading the tree of a chunk.                                            *)
(***************************************************************************)
\* lexicographic order of positions
PositionLE(a, b) ==
  a.line < b.line \/ (a.line = b.line /\ a.character <= b.character)

\* the fields of a node that hold one node, and those that hold a list
ChildFields(n) ==
  {"variable", "init", "left", "right", "base", "index", "identifier",
   "argument", "condition", "iterator", "expression", "key"}
    \cup (IF n.type \in {"MapKeyString", "ListValue"} THEN {"value"} ELSE {})

ChildListFields ==
  {"body", "arguments", "fields", "parameters", "clauses"}

\* the end of a node; an if-statement keeps its end in ifEnd
NodeEnd(n, ifEnd) == IF "end" \in DOMAIN n THEN n.end ELSE ifEnd[n.id]

\* <<type, start, end>> of every node of the tree under n
RECURSIVE Spans(_, _)
Spans(n, ifEnd) ==
  IF n = Null THEN {}
  ELSE {<<n.type, n.start, NodeEnd(n, ifEnd)>>}
       \cup UNION {Spans(n[f], ifEnd) : f \in ChildFields(n) \cap DOMAIN n}
       \cup UNION {UNION {Spans(n[f][i], ifEnd) : i \in DOMAIN n[f]} :
                     f \in ChildListFields \cap DOMAIN n}

\* parseChunk has returned or thrown
Finished == pc \in {"done", "thrown"}

(***************************************************************************)
(* The claims.                                                             *)
(***************************************************************************)
\* C1: with unsafe = true parseChunk never throws, whatever the source: every
\* failure is recorded and parsing goes on until a chunk is returned.
C1_UnsafeNeverThrows ==
  (client = "parser" /\ parser.unsafe) => pc # "thrown"

\* C2: with unsafe = false the first error detected by the tokenizer or by
\* the parser is thrown out of parseChunk: it is the only error recorded, no
\* chunk is returned, no recovery runs and the cursor still is at the token
\* where the error was detected.
C2_StrictThrowsFirstError ==
  (client = "parser" /\ ~parser.unsafe
     /\ (parser.errors # <<>> \/ parser.lexer.errors # <<>>)) =>
    /\ pc = "thrown"
    /\ chunk = Null
    /\ Len(parser.errors) + Len(parser.lexer.errors) = 1
    /\ parser.recovered = <<>>
    /\ parser.errors # <<>> => parser.token = parser.detected[1]
    /\ parser.lexer.errors # <<>> => parser.prefetchedTokens = <<>>

\* a strict parse that threw a parser error after it had parsed a statement
C2_Witness ==
  /\ client = "parser" /\ ~parser.unsafe /\ pc = "thrown"
  /\ Len(parser.errors) = 1 /\ Len(block) > 0
  /\ parser.token.type \notin {"EOL", "EOF"}

\* C3: with unsafe = true parseChunk terminates on every finite source, and
\* every recovery and every iteration of a statement or element loop moves
\* the cursor unless it is at the end of the file.
C3_UnsafeTerminates ==
  (client = "parser" /\ parser.unsafe) => (pc # "hang" /\ ~parser.stalled)

\* C4: in unsafe mode a call of next() that meets an invalid character or an
\* unterminated string still returns a token.
C4_UnsafeNextReturns ==
  (client = "lexer" /\ lexer.unsafe) => lexStatus = "ok"

\* C5: a recovery of the unsafe parser steps over tokens only up to the
\* first end-of-line or end-of-file token at or after the token where the
\* error was detected: over no token of a later line, and over no token
\* before that one.
C5_RecoveryStopsAtEndOfLine ==
  \A i \in DOMAIN parser.recovered :
    LET r == parser.recovered[i]
    IN \A j \in DOMAIN r.skipped :
         /\ r.skipped[j].line <= r.at.line
         /\ r.skipped[j].range[1] >= r.at.range[1]

\* C6: a source of three malformed lines separated by valid lines, parsed
\* with unsafe = true, gives exactly three errors and a body of the valid
\* lines (two) plus three placeholders.
C6_ThreeErrorsThreePlaceholders ==
  (client = "parser" /\ parser.unsafe /\ Finished
     /\ parser.content \in {SrcThreeErrorsInside, SrcThreeErrorsAtEol}) =>
    /\ pc = "done"
    /\ Len(parser.errors) = 3
    /\ Len(chunk.body) = 2 + 3

\* C7: a source that the strict parser parses without raising gives, parsed
\* with unsafe = true, the identical chunk and no error.
C7_UnsafeAgreesWithStrict ==
  (client = "parser" /\ ~parser.unsafe /\ pc = "done") =>
    LET u == parseChunk(NewParser(parser.content, TRUE, parser.lexer.tabWidth))
    IN /\ Ok(u)
       /\ u.ret = chunk
       /\ u.errors = <<>>
       /\ u.lexer.errors = <<>>

\* a strict parse that returned a chunk with a function scope in it
C7_Witness ==
  /\ client = "parser" /\ ~parser.unsafe /\ pc = "done"
  /\ parser.content = SrcAssignedFunction
  /\ Len(chunk.scopes) = 1

\* C8: a shortcut if with an else branch on one line, followed by a block if
\* closed by end if, gives two top-level if-statements: the shortcut ends at
\* the end of its own line (18 characters) and takes no end if, the block
\* ends at the end of the end if token.
C8_ShortcutThenBlockIf ==
  (client = "parser" /\ Finished
     /\ parser.content = SrcShortcutThenBlockIf) =>
    /\ pc = "done"
    /\ Len(chunk.body) = 2
    /\ chunk.body[1].type = "IfShortcutStatement"
    /\ chunk.body[1].start = Position(1, 1)
    /\ NodeEnd(chunk.body[1], chunk.ifEnd) = Position(1, 19)
    /\ Len(chunk.body[1].clauses) = 2
    /\ parser.endIfOnShortcutStack = <<>>
    /\ chunk.body[2].type = "IfStatement"
    /\ chunk.body[2].start = Position(2, 1)
    /\ NodeEnd(chunk.body[2], chunk.ifEnd) = Position(4, 7)
    /\ parser.previousToken.value = "end if"
    /\ NodeEnd(chunk.body[2], chunk.ifEnd) = getEnd(parser.previousToken)

\* the chunk of that source has been returned
C8_Witness ==
  /\ client = "parser" /\ pc = "done"
  /\ parser.content = SrcShortcutThenBlockIf
  /\ Len(chunk.body) = 2

\* C9: every node of the tree parseChunk returned has start <= end.
C9_StartBeforeEnd ==
  (client = "parser" /\ pc = "done") =>
    \A s \in Spans(chunk, chunk.ifEnd) : PositionLE(s[2], s[3])

\* C10 as stated: the source with a name after the function keyword gives a
\* function scope with the namespaces a and b whose only assignment is the
\* one to b.
C10_NamedFunctionScope ==
  (client = "parser" /\ Finished /\ parser.content = SrcNamedFunction) =>
    /\ pc = "done"
    /\ Len(chunk.scopes) = 1
    /\ chunk.scopeTab[chunk.scopes[1]].namespaces = {"a", "b"}
    /\ Len(chunk.scopeTab[chunk.scopes[1]].assignments) = 1

\* C10: the source f = function(a), b = a + 1, end function gives a function
\* scope with the namespaces a and b whose only assignment is the one to b;
\* f is a name of the chunk and not of the function.
C10_AssignedFunctionScope ==
  (client = "parser" /\ Finished /\ parser.content = SrcAssignedFunction) =>
    /\ pc = "done"
    /\ Len(chunk.body) = 1
    /\ chunk.body[1].type = "AssignmentStatement"
    /\ chunk.body[1].variable.name = "f"
    /\ chunk.body[1].init.type = "FunctionDeclaration"
    /\ chunk.scopes = <<chunk.body[1].init.id>>
    /\ LET scope == chunk.scopeTab[chunk.body[1].init.id]
       IN /\ scope.namespaces = {"a", "b"}
          /\ Len(scope.assignments) = 1
          /\ scope.assignments[1].variable.name = "b"
          /\ scope.assignments[1] = chunk.body[1].init.body[1]
    /\ chunk.namespaces = {"f"}

\* the chunk of that source has been returned
C10_Witness ==
  /\ client = "parser" /\ pc = "done"
  /\ parser.content = SrcAssignedFunction
  /\ chunk.body[1].init.parameters # <<>>

\* the types of the nodes of the tree of the chunk
NodeTypes == {s[1] : s \in Spans(chunk, chunk.ifEnd)}

\* C11: the source x, new line, (1) is never parsed as the call x(1): the
\* strict parse either throws or returns two statements, the first the bare
\* name x and the second the parenthesised value, and no call expression is
\* in the tree.
C11_NoCallAcrossLines ==
  (client = "parser" /\ ~parser.unsafe /\ Finished
     /\ parser.content = SrcCallAcrossLines) =>
    \/ pc = "thrown"
    \/ /\ Len(chunk.body) = 2
       /\ chunk.body[1].expression.type = "Identifier"
       /\ chunk.body[1].end.line = 1
       /\ chunk.body[2].start.line = 2
       /\ "CallExpression" \notin NodeTypes

\* the strict parse of that source has returned its chunk
C11_Witness ==
  /\ client = "parser" /\ ~parser.unsafe /\ pc = "done"
  /\ parser.content = SrcCallAcrossLines
  /\ Len(chunk.body) = 2

\* the value of the literal the only statement of the chunk assigns
AssignedValue == chunk.body[1].init.value

\* C12: for x = 5, x = 5.0, x = .5 and x = 5. the literal assigned to x has
\* the numeric value 5, 5.0, 0.5 and 5.0: the numbers printed 5, 5, 0.5 and 5.
C12_NumericLiteralValues ==
  (client = "parser" /\ Finished) =>
    /\ parser.content \in {SrcNumberInteger, SrcNumberFraction,
                           SrcNumberTrailingDot} =>
         (pc = "done" /\ chunk.body[1].init.type = "NumericLiteral"
            /\ AssignedValue = "5")
    /\ parser.content = SrcNumberLeadingDot =>
         (pc = "done" /\ chunk.body[1].init.type = "NumericLiteral"
            /\ AssignedValue = "0.5")

\* C13: in the sequence of tokens successive calls of next() return, each
\* token's (line, start of range) is at or after the (line, end of range) of
\* the token before it.
C13_TokensInOrder ==
  client = "lexer" =>
    \A i \in 2..Len(tokens) :
      \/ tokens[i].line > tokens[i - 1].line
      \/ /\ tokens[i].line = tokens[i - 1].line
         /\ tokens[i].range[1] >= tokens[i - 1].range[2]

\* tokens of two lines have been returned, an end-of-line token between them
C13_Witness ==
  /\ client = "lexer" /\ Len(tokens) >= 5
  /\ \E i \in 2..(Len(tokens) - 1) :
       /\ tokens[i].type = "EOL"
       /\ tokens[i + 1].type = "Identifier"
       /\ tokens[i + 1].line = tokens[i].line + 1

\* C14: once next() has returned the end-of-file token, every later call
\* returns that token again and raises no error.
C14_EofIsRepeated ==
  client = "lexer" =>
    \A i \in 1..Len(tokens) :
      tokens[i].type = "EOF" =>
        /\ lexStatus = "ok"
        /\ \A j \in i..Len(tokens) : tokens[j] = tokens[i]

\* next() has been called twice after it had returned the end of the file
C14_Witness ==
  /\ client = "lexer" /\ Len(tokens) >= 3
  /\ tokens[Len(tokens) - 2].type = "EOF"
  /\ tokens[Len(tokens)].type = "EOF"

\* C15: when a block if finds no end if of its own and pops an entry of the
\* shortcut end-if stack, its end becomes the position just after the end if
\* the shortcut took (line 3, after the 6 characters of end if) and the
\* shortcut's end becomes its end before that end if (the end of line 2).
C15_BorrowedEndIfPositions ==
  (client = "parser" /\ Finished
     /\ parser.content = SrcBlockIfBorrowsEndIf) =>
    /\ pc = "done"
    /\ Len(chunk.body) = 1
    /\ chunk.body[1].type = "IfStatement"
    /\ chunk.body[1].clauses[1].body[1].type = "IfShortcutStatement"
    /\ parser.endIfOnShortcutStack = <<>>
    /\ NodeEnd(chunk.body[1].clauses[1].body[1], chunk.ifEnd) = Position(2, 13)
    /\ NodeEnd(chunk.body[1], chunk.ifEnd) = Position(3, 7)

\* C16: a shortcut if takes else if and else clauses only from the line of
\* its own if: in a block if whose else begins the line after a shortcut if,
\* the else clause belongs to the block if and the shortcut if has its one
\* clause.
C16_ShortcutIfOnOneLine ==
  (client = "parser" /\ Finished
     /\ parser.content = SrcElseAfterShortcutInBlock) =>
    /\ pc = "done"
    /\ Len(chunk.body) = 1
    /\ chunk.body[1].type = "IfStatement"
    /\ Len(chunk.body[1].clauses) = 2
    /\ chunk.body[1].clauses[2].type = "ElseClause"
    /\ Len(chunk.body[1].clauses[2].body) = 1
    /\ Len(chunk.body[1].clauses[1].body) = 1
    /\ chunk.body[1].clauses[1].body[1].type = "IfShortcutStatement"
    /\ Len(chunk.body[1].clauses[1].body[1].clauses) = 1

\* C17: a block if without an end if of its own is accepted only when a
\* shortcut if nested in it took the end if; the entry an earlier shortcut
\* if pushed is not used, so the block if left open at the end of the file
\* raises the unexpected-end-of-if error (thrown by the strict parser,
\* recorded by the unsafe one).
C17_NoStaleEndIf ==
  (client = "parser" /\ Finished /\ parser.content = SrcStaleEndIf) =>
    /\ parser.errors # <<>>
    /\ parser.errors[1].message = "Unexpected end of if statement"
    /\ ~parser.unsafe => pc = "thrown"

\* n is recorded in the scope with index id: it names that scope, an
\* identifier is one of the namespaces and an assignment is one of the
\* assignments (the one at its place in the source)
RecordedIn(n, id, scopeTab) ==
  /\ "scope" \in DOMAIN n => n.scope = id
  /\ (n.type = "Identifier" /\ ~isNative(n.name)) =>
       n.name \in scopeTab[id].namespaces
  /\ n.type = "AssignmentStatement" =>
       \E i \in DOMAIN scopeTab[id].assignments :
         LET a == scopeTab[id].assignments[i]
         IN a.start = n.start /\ a.end = n.end
              /\ a.variable.start = n.variable.start
              /\ a.init.type = n.init.type /\ a.init.start = n.init.start

\* every node under n, n included, that is not inside a function declared
\* under n is recorded in the scope with index id
RECURSIVE AllRecordedIn(_, _, _)
AllRecordedIn(n, id, scopeTab) ==
  IF n = Null THEN TRUE
  ELSE /\ RecordedIn(n, id, scopeTab)
       /\ n.type # "FunctionDeclaration" =>
            /\ \A f \in ChildFields(n) \cap DOMAIN n :
                 AllRecordedIn(n[f], id, scopeTab)
            /\ \A f \in ChildListFields \cap DOMAIN n :
                 \A i \in DOMAIN n[f] : AllRecordedIn(n[f][i], id, scopeTab)

\* for every function declaration under n, n included, the nodes of its
\* parameter list and of its body are recorded in its scope
RECURSIVE FunctionsRecord(_, _)
FunctionsRecord(n, scopeTab) ==
  IF n = Null THEN TRUE
  ELSE /\ n.type = "FunctionDeclaration" =>
            /\ \A i \in DOMAIN n.parameters :
                 AllRecordedIn(n.parameters[i], n.id, scopeTab)
            /\ \A i \in DOMAIN n.body :
                 AllRecordedIn(n.body[i], n.id, scopeTab)
       /\ \A f \in ChildFields(n) \cap DOMAIN n : FunctionsRecord(n[f], scopeTab)
       /\ \A f \in ChildListFields \cap DOMAIN n :
            \A i \in DOMAIN n[f] : FunctionsRecord(n[f][i], scopeTab)

C19_ScopeStackBalanced ==
  (client = "parser" /\ pc = "block") =>
    /\ parser.currentScope = 1
    /\ parser.outerScopes = <<>>

\* the operators of a generated expression, read back from its text: the
\* words between the operands
RECURSIVE Words(_, _)
Words(s, word) ==
  IF s = <<>> THEN (IF word = "" THEN <<>> ELSE <<word>>)
  ELSE IF Head(s) = " "
  THEN (IF word = "" THEN <<>> ELSE <<word>>) \o Words(Tail(s), "")
  ELSE Words(Tail(s), word \o Head(s))

OperatorsOf(content) ==
  LET words == Words(content, "")
  IN [i \in 1..((Len(words) - 3) \div 2) |-> words[2 * i + 2]]

\* the grouping the precedence table asks for, fully parenthesised: the
\* expression splits at its loosest operator, the last one of that
\* precedence when operators group left to right and the first one for the
\* power operator
RECURSIVE Grouping(_, _)
Grouping(operands, ops) ==
  IF ops = <<>> THEN <<operands[1]>>
  ELSE
  LET loosest == CHOOSE i \in DOMAIN ops :
                   \A j \in DOMAIN ops : getPrecedence(ops[i]) <= getPrecedence(ops[j])
      level == {i \in DOMAIN ops : getPrecedence(ops[i]) = getPrecedence(ops[loosest])}
      k == IF ops[loosest] = "^"
           THEN CHOOSE i \in level : \A j \in level : i <= j
           ELSE CHOOSE i \in level : \A j \in level : i >= j
  IN <<"(">> \o Grouping(SubSeq(operands, 1, k), SubSeq(ops, 1, k - 1))
       \o <<ops[k]>>
       \o Grouping(SubSeq(operands, k + 1, Len(operands)),
                   SubSeq(ops, k + 1, Len(ops)))
       \o <<")">>

\* the grouping of a parsed expression, fully parenthesised
RECURSIVE Render(_)
Render(n) ==
  IF n.type = "Identifier" THEN <<n.name>>
  ELSE IF n.type \in {"BinaryExpression", "LogicalExpression"}
  THEN <<"(">> \o Render(n.left) \o <<n.operator>> \o Render(n.right) \o <<")">>
  ELSE <<n.type>>

\* C20: for a sequence of operands and binary operators of the precedence
\* table the parsed tree groups a higher-precedence operator tighter than a
\* lower one, operators of equal precedence left to right and the power
\* operator right to left.
C20_PrecedenceGrouping ==
  (client = "parser" /\ Finished /\ parser.content \in Expressions) =>
    /\ pc = "done"
    /\ Len(chunk.body) = 1
    /\ chunk.body[1].type = "AssignmentStatement"
    /\ LET ops == OperatorsOf(parser.content)
       IN Render(chunk.body[1].init) =
            Grouping(SubSeq(Operands, 1, Len(ops) + 1), ops)

\* parsed expressions with a tighter operator after a looser one, with two
\* power operators, and with two operators of one level
C20_Witness ==
  /\ client = "parser" /\ pc = "done"
  /\ parser.content \in
       {ExpressionSource(<<"+", "*">>), ExpressionSource(<<"^", "^">>),
        ExpressionSource(<<"-", "+">>)}
  /\ chunk.body[1].init.type = "BinaryExpression"

\* the tokens the parser has been on, oldest first
CurrentTokens(p) ==
  p.history
    \o (IF p.previousToken # NoToken THEN <<p.previousToken>> ELSE <<>>)
    \o (IF p.token # NoToken THEN <<p.token>> ELSE <<>>)

\* the first n tokens that a tokenizer returns, fewer when a call of next()
\* does not return
RECURSIVE TokenizerTokens(_, _)
TokenizerTokens(lx, n) ==
  IF n = 0 THEN <<>>
  ELSE LET r == Call("Lexer_next", <<lx, 0>>)
       IN IF r.st # "ok" THEN <<>>
          ELSE <<r.tok>> \o TokenizerTokens(r.lx, n - 1)

\* the tokens the parser has been on are the first tokens of a tokenizer of
\* its content
FollowsTokenizer(p) ==
  CurrentTokens(p)
    = TokenizerTokens(NewLexer(p.content, p.unsafe, p.lexer.tabWidth),
                      Len(CurrentTokens(p)))

\* C21: however next() and prefetch(offset) are interleaved on a parser, a
\* prefetch(offset) that returns leaves the current and the previous token as
\* they were, and after a next() that returns the previous token is the
\* former current token and the tokens the parser has been on are exactly
\* the tokens a tokenizer of the same content produces, in that order, none
\* skipped and none twice.
C21_CursorFollowsTokenizer ==
  [][client = "cursor" =>
       /\ pc' = "prefetch" =>
            /\ parser'.token = parser.token
            /\ parser'.previousToken = parser.previousToken
            /\ FollowsTokenizer(parser')
       /\ pc' = "next" =>
            /\ parser'.previousToken = parser.token
            /\ Len(CurrentTokens(parser')) = Len(CurrentTokens(parser)) + 1
            /\ FollowsTokenizer(parser')]_vars

\* next() has returned three times with tokens fetched ahead in the buffer
C21_Witness ==
  /\ client = "cursor" /\ pc = "next"
  /\ Len(CurrentTokens(parser)) >= 3
  /\ parser.token.type # "EOF"
  /\ Len(parser.prefetchedTokens) >= 1

\* the characters of the content between the two quotes of a string token
StringInterior(content, token) ==
  SubSeq(content, token.range[1] + 2, token.range[2] - 1)

\* C22: a string literal token runs from its opening quote to the first
\* quote that is not doubled, its value is the text between them with every
\* doubled quote replaced by one quote, and no end of line lies between the
\* quotes: a string still open at the end of its line is an error, not a
\* token.
C22_StringEndsOnItsLine ==
  client = "lexer" =>
    \A i \in DOMAIN tokens :
      tokens[i].type = "StringLiteral" =>
        LET inner == StringInterior(lexer.content, tokens[i])
        IN /\ lexer.content[tokens[i].range[1] + 1] = "\""
           /\ lexer.content[tokens[i].range[2]] = "\""
           /\ tokens[i].value = Join(replaceEscapedQuotes(inner))
           /\ \A k \in DOMAIN inner : ~isEndOfLine(inner[k])

\* the number of newline sequences in a text; \r\n and \n\r are one sequence
RECURSIVE NewlineSequences(_)
NewlineSequences(s) ==
  IF s = <<>> THEN 0
  ELSE IF ~isEndOfLine(s[1]) THEN NewlineSequences(Tail(s))
  ELSE IF Len(s) >= 2 /\ isEndOfLine(s[2]) /\ s[2] # s[1]
  THEN 1 + NewlineSequences(SubSeq(s, 3, Len(s)))
  ELSE 1 + NewlineSequences(Tail(s))

\* C23: the line of every token the tokenizer returns is 1 plus the number
\* of newline sequences in the content before the first character of the
\* token, also for the tokens after a string literal, after an end keyword
\* and after an error from which the unsafe tokenizer recovered.
C23_TokenLineCountsNewlines ==
  client = "lexer" =>
    \A i \in DOMAIN tokens :
      tokens[i].line =
        1 + NewlineSequences(SubSeq(lexer.content, 1, tokens[i].range[1]))

\* the characters of the content before offset n that are on the line of
\* the character at n
LinePrefix(content, n) ==
  LET ends == {k \in 1..n : isEndOfLine(content[k])}
  IN SubSeq(content,
            (IF ends = {} THEN 0
             ELSE CHOOSE k \in ends : \A j \in ends : j <= k) + 1,
            n)

\* C24: the start column of every token is 1, plus the number of characters
\* other than tabs before it on its line, plus the tab width for every tab
\* before it on its line; the count starts again after every newline.
C24_TokenColumnCountsTabs ==
  client = "lexer" =>
    \A i \in DOMAIN tokens :
      LET before == LinePrefix(lexer.content, tokens[i].range[1])
          tabs == Cardinality({k \in DOMAIN before : before[k] = "\t"})
      IN tokens[i].lineRange[1] =
           1 + (Len(before) - tabs) + lexer.tabWidth * tabs

\* C25: the statement x OP= 1, with OP one of + - * /, is parsed to an
\* assignment statement whose variable is x and whose init is the binary
\* expression x OP 1, and the assignments of the chunk's scope hold that
\* statement and nothing else.
C25_ShorthandIsAssignment ==
  (client = "parser" /\ pc = "done" /\ parser.content \in Shorthands) =>
    /\ Len(chunk.body) = 1
    /\ chunk.body[1].type = "AssignmentStatement"
    /\ chunk.body[1].variable.type = "Identifier"
    /\ chunk.body[1].variable.name = "x"
    /\ chunk.body[1].init.type = "BinaryExpression"
    /\ chunk.body[1].init.operator = parser.content[3]
    /\ chunk.body[1].init.left = chunk.body[1].variable
    /\ chunk.body[1].init.right.type = "NumericLiteral"
    /\ chunk.scopeTab[1].assignments = <<chunk.body[1]>>

\* C26: in the source x, new line, (1) the opening parenthesis follows the
\* expression x on a later line, and the parser raises an error for it: the
\* strict parse throws and the unsafe parse records the error, instead of
\* reading (1) as a statement of its own.
C26_CallAcrossLinesRaises ==
  (client = "parser" /\ Finished /\ parser.content = SrcCallAcrossLines) =>
    IF parser.unsafe THEN parser.errors # <<>> ELSE pc = "thrown"

\* the import of one line: its two paths
ImportPaths(node) ==
  <<node.type, node.gameDirectory, node.fileSystemDirectory>>

\* C27 as amended: import_code with one string literal, or with two string
\* literals separated by a colon, yields one import node, and the nodes are
\* in nativeImports in the order of the source; when the first or the second
\* argument is not a string literal the first error is the one about the
\* hardcoded import path, the strict parse throws, and no import is
\* appended.
C27_ImportCodePaths ==
  /\ (client = "parser" /\ pc = "done" /\ parser.content = SrcImports) =>
        /\ parser.errors = <<>>
        /\ Len(chunk.nativeImports) = 2
        /\ ImportPaths(chunk.nativeImports[1])
             = <<"ImportCodeExpression", "a", Null>>
        /\ ImportPaths(chunk.nativeImports[2])
             = <<"ImportCodeExpression", "b", [value |-> "c"]>>
        /\ chunk.body = chunk.nativeImports
  /\ (client = "parser" /\ Finished
        /\ parser.content \in {SrcImportNoString, SrcImportSecondNoString}) =>
        /\ parser.errors # <<>>
        /\ parser.errors[1].message = "Unexpected import path"
        /\ parser.nativeImports = <<>>
        /\ ~parser.unsafe => pc = "thrown"

\* both imports of the two-line source are in nativeImports
C27_Witness ==
  /\ client = "parser" /\ pc = "done"
  /\ parser.content = SrcImports
  /\ Len(chunk.nativeImports) = 2

\* C27: import_code with two string literals separated by a comma yields
\* one import node in nativeImports and raises no error.
C27_ImportCodeComma ==
  (client = "parser" /\ Finished /\ parser.content = SrcImportComma) =>
    /\ pc = "done"
    /\ parser.errors = <<>>
    /\ Len(chunk.nativeImports) = 1

\* the pairs <<outer, inner>> of prefixes of which the outer may wrap the inner
AllowedStacking ==
  {<<"not", "-">>, <<"not", "@">>, <<"-", "@">>}

\* C28: in x = outer inner a, one unary prefix directly followed by another,
\* the stacking is accepted exactly when the inner prefix is on the list of
\* the outer (not may wrap - and @, - may wrap @, no other prefix wraps any):
\* then the value is the unary expression of outer whose argument is the
\* unary expression of inner, and no error is raised; every other stacking
\* raises an error, which the strict parse throws.
C28_UnaryStacking ==
  \A outer \in UnaryPrefixes, inner \in UnaryPrefixes :
    (client = "parser" /\ Finished
       /\ parser.content = StackedUnary(outer, inner)) =>
      IF <<Join(outer), Join(inner)>> \in AllowedStacking
      THEN /\ pc = "done"
           /\ parser.errors = <<>>
           /\ chunk.body[1].init.type = "UnaryExpression"
           /\ chunk.body[1].init.operator = Join(outer)
           /\ chunk.body[1].init.argument.type = "UnaryExpression"
           /\ chunk.body[1].init.argument.operator = Join(inner)
           /\ chunk.body[1].init.argument.argument.type = "Identifier"
      ELSE /\ parser.errors # <<>>
           /\ parser.errors[1].message = "Unexpected argument for"
           /\ ~parser.unsafe => pc = "thrown"

\* not has wrapped - in a parse that returned
C28_Witness ==
  /\ client = "parser" /\ pc = "done"
  /\ parser.content = StackedUnary(<<"n", "o", "t">>, <<"-">>)
  /\ chunk.body[1].init.argument.operator = "-"

\* the line index holds the statement under the line it starts on
InLineIndex(statement, lines) ==
  /\ statement.start.line \in DOMAIN lines
  /\ lines[statement.start.line] = statement

\* every statement of every body in the tree under n is in the line index
RECURSIVE BodiesInLineIndex(_, _)
BodiesInLineIndex(n, lines) ==
  IF n = Null THEN TRUE
  ELSE /\ "body" \in DOMAIN n =>
            \A i \in DOMAIN n.body : InLineIndex(n.body[i], lines)
       /\ \A f \in ChildFields(n) \cap DOMAIN n :
            BodiesInLineIndex(n[f], lines)
       /\ \A f \in ChildListFields \cap DOMAIN n :
            \A i \in DOMAIN n[f] : BodiesInLineIndex(n[f][i], lines)

\* C29: when parseChunk has returned, every statement of the body of the
\* chunk, of a block and of a shortcut clause is in the line index of the
\* chunk under the line it starts on, also when several statements start on
\* one line.
C29_StatementsInLineIndex ==
  (client = "parser" /\ pc = "done") => BodiesInLineIndex(chunk, chunk.lines)

\* the fields of a node that hold nodes, in a fixed order
ShapeFields ==
  <<"variable", "init", "left", "right", "base", "index", "identifier",
    "argument", "condition", "iterator", "expression", "key", "value",
    "body", "arguments", "fields", "parameters", "clauses">>

RECURSIVE Concat(_)
Concat(seqs) == IF seqs = <<>> THEN <<>> ELSE Head(seqs) \o Concat(Tail(seqs))

\* the shape of the tree under n: the types of its nodes and the fields that
\* hold them, without positions and values
RECURSIVE Shape(_)
ShapeOfField(n, f) ==
  IF f \notin DOMAIN n THEN <<>>
  ELSE IF f \in ChildListFields
  THEN <<f, "[">> \o Concat([i \in 1..Len(n[f]) |-> Shape(n[f][i])]) \o <<"]">>
  ELSE IF f \in ChildFields(n) THEN <<f>> \o Shape(n[f])
  ELSE <<>>

Shape(n) ==
  IF n = Null THEN <<"null">>
  ELSE <<"(", n.type>>
         \o Concat([k \in 1..Len(ShapeFields) |-> ShapeOfField(n, ShapeFields[k])])
         \o <<")">>

\* the messages of a list of errors
Messages(errors) == [i \in 1..Len(errors) |-> errors[i].message]

\* the parse of this state and the parse of another content end alike: both
\* return or both throw, with the same errors and trees of the same shape
SameParseAs(content) ==
  LET other == Call("parseChunk",
                    <<NewParser(content, parser.unsafe, parser.lexer.tabWidth)>>)
  IN /\ other.st = (IF pc = "done" THEN "ok" ELSE "throw")
     /\ Messages(other.errors) = Messages(parser.errors)
     /\ pc = "done" => Shape(other.ret) = Shape(chunk)

\* C30: the text of a string literal decides nothing in the parse: of two
\* sources that differ only in the text of one string literal (a text with
\* no quote and no newline) either both parses return or both throw, the
\* errors are the same and the trees have the same shape.
C30_StringTextDecidesNothing ==
  \A text \in StringTexts, other \in StringTexts :
    /\ (client = "parser" /\ Finished
          /\ parser.content = StringAfterOperand(text)) =>
          SameParseAs(StringAfterOperand(other))
    /\ (client = "parser" /\ Finished
          /\ parser.content = StringInShortcut(text)) =>
          SameParseAs(StringInShortcut(other))

====
